---- MODULE Spec2Model ----
(***************************************************************************)
(* State-machine model of the background observation pipeline of           *)
(* ShipFastBackend: the query collection engine (collectLogs), the alert   *)
(* engine (collectAlertQueries), the operator opt-in (enableQueryAlert),   *)
(* the database registration (connectDatabase) and the context cache       *)
(* (cacheService).  The engines are async functions: every action below    *)
(* is one run-to-the-next-await step of one of them, so that the steps of  *)
(* different engines interleave as they do on the Node.js event loop.      *)
(***************************************************************************)
EXTENDS Integers, Sequences, FiniteSets, TLC

\* ------------------------------------------------------------------ bounds
\* Largest number of rows one statistics query returns in the model.
MaxRows == 2
\* Most events the TopSlowQuery table holds in the model: an alert poll
\* starts, and its statistics query returns rows, only below this size.
MaxEvents == 2

\* ------------------------------------------------------- program constants
CRITICAL_QUERY_THRESHOLD_MS == 500
CACHE_TTL == 3600
CACHE_PREFIX == "query_context:"
\* take: 20 of buildAndCacheQueryContext
TOP_QUERIES == 20
HARDCODED_EMAIL == "nischaysinha261@gmail.com"

\* ------------------------------------------------------------ input domains
\* UserDB.username is unique; the row's id is fixed by the username.
Usernames == {"u1", "u2"}
DbIdOf == [u \in Usernames |-> IF u = "u1" THEN "db1" ELSE "db2"]
DbIds == {DbIdOf[u] : u \in Usernames}
UsernameOfDb(d) == CHOOSE u \in Usernames : DbIdOf[u] = d
\* The fixed order in which the store returns UserDB rows.
DbOrder == <<"db1", "db2">>

QueryTexts == {"q1", "q2"}
\* The statements each target database runs: both run q1, db1 also q2.
WorkloadOf == [d \in DbIds |-> IF d = "db1" THEN QueryTexts ELSE {"q1"}]

\* Rows of pg_stat_statements: a fast row exactly at the threshold and a
\* slow row above it; all four numeric columns of a row differ.
StatLevels ==
  { [calls |-> 1, mean |-> CRITICAL_QUERY_THRESHOLD_MS],
    [calls |-> 2, mean |-> CRITICAL_QUERY_THRESHOLD_MS + 100] }

StatRows ==
  { [query |-> q, calls |-> l.calls, total_exec_time |-> l.calls * l.mean,
     mean_exec_time |-> l.mean, rows |-> l.calls + 1]
      : q \in QueryTexts, l \in StatLevels }

\* Every result set of at most MaxRows rows, one row per statement.
StatOutputs ==
  { s \in UNION { [1..n -> StatRows] : n \in 0..MaxRows } :
      \A i, j \in DOMAIN s : i # j => s[i].query # s[j].query }

\* The result sets the statistics extension of database d can return.
StatOutputsOf(d) ==
  { s \in StatOutputs : \A i \in DOMAIN s : s[i].query \in WorkloadOf[d] }

\* The tables of a target's public schema, in the order of ORDER BY
\* table_name, and the lists getTables can return.
TableNames == <<"t1", "t2">>

TableLists == { <<>>, <<"t1">>, <<"t2">>, <<"t1", "t2">> }

\* What the four metadata queries of one table can return.
TableMetas ==
  { [ columns |-> <<[column_name |-> "id", data_type |-> "integer"]>>,
      primaryKeys |-> <<"id">>, foreignKeys |-> <<>>,
      indexes |-> <<[indexname |-> "t_pkey"]>> ],
    [ columns |-> <<[column_name |-> "id", data_type |-> "integer"],
                    [column_name |-> "name", data_type |-> "text"]>>,
      primaryKeys |-> <<"id">>, foreignKeys |-> <<>>,
      indexes |-> <<[indexname |-> "t_pkey"], [indexname |-> "t_name_idx"]>> ] }

\* What SELECT COUNT(*) can do: throw, or return one row with the count.
CountResults == { [ok |-> FALSE, count |-> 0], [ok |-> TRUE, count |-> 7] }

\* A JavaScript Date and the ISO-8601 string JSON.stringify turns it into.
DateValue == [type |-> "Date"]
IsoString == [type |-> "string"]

\* ----------------------------------------------------------------- helpers
\* The text column of a row that has none (SQL NULL).
NullText == "<null>"

\* row.query || ''
OrEmpty(q) == IF q = NullText THEN "" ELSE q

\* parseInt(x) || 0 and parseFloat(x) || 0 on a numeric column.
ParseOrZero(x) == IF x \in Int THEN x ELSE 0

hashQuery(query) == <<"sha256", OrEmpty(query)>>

\* Mutant: the threshold itself counts as critical.
isCriticalQuery_AtLeast(query) == query.meanTimeMs >= CRITICAL_QUERY_THRESHOLD_MS

isCriticalQuery(query) == query.meanTimeMs > CRITICAL_QUERY_THRESHOLD_MS

getCacheKey(username) == <<CACHE_PREFIX, username>>

\* Indices of the elements of s that satisfy Test, in order.
RECURSIVE IndicesWhere(_, _, _)
IndicesWhere(s, Test(_), from) ==
  IF from > Len(s) THEN <<>>
  ELSE IF Test(s[from]) THEN <<from>> \o IndicesWhere(s, Test, from + 1)
       ELSE IndicesWhere(s, Test, from + 1)

VARIABLES
  userDB,        \* UserDB table: [DbIds -> [present, monitoringEnabled]]
  queryLog,      \* QueryLog table, in insertion order; the id is the index
  topSlowQuery,  \* TopSlowQuery table (CriticalQueryEvents), append-only
  outbox,        \* messages handed to sendEmail by sendQueryAlert
  isOpen,        \* redisClient.isOpen
  cache,         \* Redis: [cache key -> <<>> or <<[value, ttl]>>]
  collect,       \* position and locals of the running collectLogs
  alert,         \* position and locals of the running collectAlertQueries
  consumer,      \* position and locals of the running context consumer
  optedIn,       \* history: (db, text) pairs enableQueryAlert answered with success
  recording,     \* history switch: which of lastRows ("rows"), pollLog ("polls") and reply ("replies") are kept
  lastRows,      \* history: [db -> <<>> or <<result set of its last finished collection>>]
  pollLog,       \* history: [job -> what its running poll wrote and invalidated]
  lastSet,       \* history: [username -> <<>> or <<context last stored in Redis>>]
  tableStructure,   \* TableStructure table, in insertion order
  schema,           \* position and locals of the running collectTableData
  top3Suggestions,  \* Top3Suggestions table: [db -> <<>> or <<stored suggestions>>]
  synth,            \* position and locals of the running analyzeAndUpdateSuggestions
  reply             \* history: the response of the last POST /alert-query

vars == <<userDB, queryLog, topSlowQuery, outbox, isOpen, cache,
          collect, alert, consumer, optedIn, recording, lastRows, pollLog,
          lastSet, tableStructure, schema, top3Suggestions, synth, reply>>

CacheKeys == {getCacheKey(u) : u \in Usernames}

\* conn is history: the databases to which the run holds a connection
\* (client.connect() has resolved and client.end() was not called yet).
IdleCollect == [pc |-> "idle", dbs |-> <<>>, rows |-> <<>>, i |-> 0, existing |-> 0,
                conn |-> {}]
\* evBase, outBase, opted, enabled, failed and conn are history: the sizes of the
\* event table and of the outbox when the current database's rows arrived,
\* the opt-ins and the alert-enabled (db, text) pairs when the poll began,
\* the databases of the poll whose connection or query threw, and the
\* databases to which the poll holds a connection.
IdleAlert == [pc |-> "idle", groups |-> <<>>, rows |-> <<>>, i |-> 0,
              criticalQueries |-> <<>>, evBase |-> 0, outBase |-> 0,
              opted |-> {}, enabled |-> {}, failed |-> {}, conn |-> {}]
\* History of a job's running poll: the databases whose QueryLog rows it
\* wrote, the database whose row it wrote without having called
\* invalidateDatabaseCache yet, and the written databases whose cache key
\* was stored again, or could not be deleted because Redis was closed,
\* after the write.
Jobs == {"collectLogs", "collectAlertQueries", "collectTableData"}

IdlePoll == [wrote |-> {}, pending |-> {}, excused |-> {}]

PollBegin(pl, job) ==
  IF "polls" \in recording THEN [pl EXCEPT ![job] = IdlePoll] ELSE pl

PollWrote(pl, job, userDbId) ==
  IF "polls" \in recording
    THEN [pl EXCEPT ![job].wrote = @ \cup {userDbId}, ![job].pending = {userDbId}]
    ELSE pl

PollInvalidated(pl, job, userDbId, open) ==
  IF "polls" \in recording
    THEN [pl EXCEPT ![job].pending = {},
                    ![job].excused = IF open THEN @ \ {userDbId}
                                     ELSE @ \cup ({userDbId} \cap pl[job].wrote)]
    ELSE pl

PollStored(pl, userDbId) ==
  IF "polls" \in recording
    THEN [job \in Jobs |->
            [pl[job] EXCEPT !.excused = @ \cup ({userDbId} \cap pl[job].wrote)]]
    ELSE pl

\* count, stored, failed and conn are history: the result of the row-count
\* query of the current table, the <<database, table>> pairs of the current
\* run whose structure was stored and whose processing threw, and the
\* databases to which the run holds a connection.
IdleSchema == [pc |-> "idle", dbs |-> <<>>, tables |-> <<>>, i |-> 0,
               tableData |-> <<>>, count |-> <<>>, stored |-> {}, failed |-> {},
               conn |-> {}]

\* skipped, asked, threw, written and by are history: the databases of the
\* current run that had no data, for which the model was called, for which
\* the call threw, and whose suggestions were upserted, and the caller of
\* the run in progress ("cron" or "get-insights").
IdleSynth == [pc |-> "idle", dbs |-> <<>>, dbMetrics |-> <<>>,
              response |-> <<>>, suggestions |-> <<>>,
              skipped |-> {}, asked |-> {}, threw |-> {}, written |-> {},
              by |-> ""]

\* The response of the last POST /alert-query: its database and text, the
\* status, isNewlyCreated, and a bit that flips with every request.
NoReply == [db |-> "", query |-> "", status |-> 0, created |-> FALSE, n |-> 0]

Reply(last, db, query, status, created) ==
  IF "replies" \in recording
    THEN [db |-> db, query |-> query, status |-> status, created |-> created,
          n |-> 1 - last.n]
    ELSE last

IdleConsumer == [pc |-> "idle", username |-> "u1", context |-> <<>>,
                 open |-> FALSE, expect |-> <<>>]

Init ==
  /\ userDB = [d \in DbIds |-> [present |-> FALSE, monitoringEnabled |-> FALSE]]
  /\ queryLog = <<>>
  /\ topSlowQuery = <<>>
  /\ outbox = <<>>
  /\ isOpen = TRUE
  /\ cache = [k \in CacheKeys |-> <<>>]
  /\ collect = IdleCollect
  /\ alert = IdleAlert
  /\ consumer = IdleConsumer
  /\ optedIn = {}
  /\ recording = {}
  /\ lastRows = [d \in DbIds |-> <<>>]
  /\ pollLog = [e \in Jobs |-> IdlePoll]
  /\ lastSet = [u \in Usernames |-> <<>>]
  /\ tableStructure = <<>>
  /\ schema = IdleSchema
  /\ top3Suggestions = [d \in DbIds |-> <<>>]
  /\ synth = IdleSynth
  /\ reply = NoReply

\* ------------------------------------------------------------ cacheService
\* Mutant: the key is deleted without looking at isOpen.
invalidateUserCache_Always(c, open, username) ==
  [c EXCEPT ![getCacheKey(username)] = <<>>]

\* invalidateUserCache: DEL of the user's key, skipped when Redis is closed.
invalidateUserCache(c, open, username) ==
  IF open THEN [c EXCEPT ![getCacheKey(username)] = <<>>] ELSE c

\* Mutant: the lookup is made, the key is not deleted.
invalidateDatabaseCache_Keep(c, open, udb, userDbId) == c

\* invalidateDatabaseCache: look the UserDB row up by id, then invalidate
\* the cache of its username.
invalidateDatabaseCache(c, open, udb, userDbId) ==
  IF udb[userDbId].present
    THEN invalidateUserCache(c, open, UsernameOfDb(userDbId))
    ELSE c

\* The history of the last stored context follows the Redis key.
ForgetOnInvalidate(ls, open, udb, userDbId) ==
  IF udb[userDbId].present /\ open
    THEN [ls EXCEPT ![UsernameOfDb(userDbId)] = <<>>]
    ELSE ls

\* ---------------------------------------------------------- connectDatabase
\* POST /connect-db: probe the target for pg_stat_statements (hasAccess) and
\* create or update the UserDB row of the username.
connectDatabase(username, hasAccess) ==
  /\ userDB' = [userDB EXCEPT ![DbIdOf[username]] =
                  [present |-> TRUE, monitoringEnabled |-> hasAccess]]
  /\ userDB' # userDB
  /\ UNCHANGED <<reply, tableStructure, schema, top3Suggestions, synth,
                 queryLog, topSlowQuery, outbox, isOpen, cache, collect,
                 alert, consumer, optedIn, lastSet, lastRows, recording, pollLog>>

\* -------------------------------------------------------------- collectLogs
\* The `data` object built for a statistics row (the min/max and block
\* counters are copied exactly like the four metrics kept here).
CollectData(row) ==
  [ queryHash |-> hashQuery(row.query),
    calls |-> ParseOrZero(row.calls),
    totalTimeMs |-> ParseOrZero(row.total_exec_time),
    meanTimeMs |-> ParseOrZero(row.mean_exec_time),
    rowsReturned |-> ParseOrZero(row.rows),
    collectedAt |-> DateValue,
    alertsEnabled |-> FALSE ]

\* prisma.queryLog.update({ where: { id }, data }) of collectLogs: every
\* field of `data` replaces the stored one.
CollectUpdate(rec, data) ==
  [rec EXCEPT !.queryHash = data.queryHash,
              !.calls = data.calls,
              !.totalTimeMs = data.totalTimeMs,
              !.meanTimeMs = data.meanTimeMs,
              !.rowsReturned = data.rowsReturned,
              !.collectedAt = data.collectedAt,
              !.alertsEnabled = data.alertsEnabled]

\* prisma.queryLog.create({ data: { userDbId, query, ...data } })
CollectCreate(userDbId, row, data) ==
  [ userDbId |-> userDbId, query |-> OrEmpty(row.query),
    queryHash |-> data.queryHash, calls |-> data.calls,
    totalTimeMs |-> data.totalTimeMs, meanTimeMs |-> data.meanTimeMs,
    rowsReturned |-> data.rowsReturned, collectedAt |-> data.collectedAt,
    alertsEnabled |-> data.alertsEnabled ]

\* prisma.queryLog.findFirst({ where: { userDbId, queryHash } }): the id of
\* the first matching row, 0 when there is none.
FindFirstByHash(log, userDbId, queryHash) ==
  LET hit(r) == r.userDbId = userDbId /\ r.queryHash = queryHash
      ids == IndicesWhere(log, hit, 1)
  IN IF ids = <<>> THEN 0 ELSE ids[1]

QueryHashTaken_Never(log, queryHash) == FALSE

\* The unique index QueryLog_queryHash_key: an insert of a hash that some
\* row (of any database) already carries is rejected.
QueryHashTaken(log, queryHash) ==
  \E id \in DOMAIN log : log[id].queryHash = queryHash

\* prisma.userDB.findMany({ where: { monitoringEnabled: true } })
MonitoredDbs ==
  LET on(d) == userDB[d].present /\ userDB[d].monitoringEnabled
  IN SelectSeq(DbOrder, on)

CollectNextDb_Leak(c) ==
  IF Len(c.dbs) <= 1 THEN [IdleCollect EXCEPT !.conn = c.conn]
  ELSE [c EXCEPT !.pc = "connect", !.dbs = Tail(c.dbs), !.rows = <<>>,
                 !.i = 0, !.existing = 0]

\* The collector leaves the current database (client.end()) and goes on to
\* the next one, or returns after the last.
CollectNextDb(c) ==
  IF Len(c.dbs) <= 1 THEN [IdleCollect EXCEPT !.conn = c.conn \ {c.dbs[1]}]
  ELSE [c EXCEPT !.pc = "connect", !.dbs = Tail(c.dbs), !.rows = <<>>,
                 !.i = 0, !.existing = 0, !.conn = @ \ {c.dbs[1]}]

CollectNextRow_Abort(c) == CollectNextDb(c)

\* The collector goes on to the next row of the current result set.
CollectNextRow(c) ==
  IF c.i >= Len(c.rows) THEN CollectNextDb(c)
  ELSE [c EXCEPT !.pc = "find", !.i = c.i + 1, !.existing = 0]

\* The cron fires: read the monitored databases.
CollectStart ==
  /\ collect.pc = "idle"
  /\ MonitoredDbs # <<>>
  /\ collect' = [IdleCollect EXCEPT !.pc = "connect", !.dbs = MonitoredDbs]
  /\ pollLog' = PollBegin(pollLog, "collectLogs")
  /\ UNCHANGED <<reply, tableStructure, schema, top3Suggestions, synth,
                 userDB, queryLog, topSlowQuery, outbox, isOpen, cache,
                 alert, consumer, optedIn, lastSet, lastRows, recording>>

\* client.connect() and the statistics query of the current database.
CollectQuery(rows) ==
  /\ collect.pc = "connect"
  /\ rows \in StatOutputsOf(collect.dbs[1])
  /\ LET connected == [collect EXCEPT !.conn = @ \cup {collect.dbs[1]}]
     IN collect' = IF rows = <<>> THEN CollectNextDb(connected)
                   ELSE [connected EXCEPT !.pc = "find", !.rows = rows, !.i = 1,
                                          !.existing = 0]
  /\ UNCHANGED <<reply, tableStructure, schema, top3Suggestions, synth,
                 userDB, queryLog, topSlowQuery, outbox, isOpen, cache,
                 alert, consumer, optedIn, lastSet, recording, pollLog>>
  /\ lastRows' = IF "rows" \in recording /\ collect'.dbs # collect.dbs
                   THEN [lastRows EXCEPT ![collect.dbs[1]] = <<rows>>]
                   ELSE lastRows

\* Look the record of the current row up by (database, hash).
CollectFind ==
  /\ collect.pc = "find"
  /\ collect' = [collect EXCEPT !.pc = "write",
        !.existing = FindFirstByHash(queryLog, collect.dbs[1],
                                     hashQuery(collect.rows[collect.i].query))]
  /\ UNCHANGED <<reply, tableStructure, schema, top3Suggestions, synth,
                 userDB, queryLog, topSlowQuery, outbox, isOpen, cache,
                 alert, consumer, optedIn, lastSet, lastRows, recording, pollLog>>

\* Update the record found, or create one; a create the unique index
\* rejects throws into the row's catch, which skips the invalidation.
CollectWrite ==
  /\ collect.pc = "write"
  /\ LET row == collect.rows[collect.i]
         data == CollectData(row)
     IN IF collect.existing # 0
          THEN /\ queryLog' = [queryLog EXCEPT ![collect.existing] =
                                 CollectUpdate(queryLog[collect.existing], data)]
               /\ collect' = [collect EXCEPT !.pc = "invalidate"]
               /\ pollLog' = PollWrote(pollLog, "collectLogs", collect.dbs[1])
          ELSE IF QueryHashTaken(queryLog, data.queryHash)
            THEN /\ queryLog' = queryLog
                 /\ collect' = CollectNextRow(collect)
                 /\ pollLog' = pollLog
            ELSE /\ queryLog' = Append(queryLog,
                                   CollectCreate(collect.dbs[1], row, data))
                 /\ collect' = [collect EXCEPT !.pc = "invalidate"]
                 /\ pollLog' = PollWrote(pollLog, "collectLogs", collect.dbs[1])
  /\ UNCHANGED <<reply, tableStructure, schema, top3Suggestions, synth,
                 userDB, topSlowQuery, outbox, isOpen, cache,
                 alert, consumer, optedIn, lastSet, recording>>
  /\ lastRows' = IF "rows" \in recording /\ collect'.dbs # collect.dbs
                   THEN [lastRows EXCEPT ![collect.dbs[1]] = <<collect.rows>>]
                   ELSE lastRows

\* client.connect() or the statistics query of the collector throws: the
\* catch of the database logs it, and the loop goes on after client.end().
CollectConnectFail ==
  /\ collect.pc = "connect"
  /\ collect' = CollectNextDb(collect)
  /\ UNCHANGED <<reply, tableStructure, schema, top3Suggestions, synth,
                 userDB, queryLog, topSlowQuery, outbox, isOpen, cache,
                 alert, consumer, optedIn, lastSet, lastRows, recording, pollLog>>

\* findFirst, update or create of the current row rejects (the store fails):
\* the row's catch logs it and the loop goes on.
CollectWriteFail ==
  /\ collect.pc = "write"
  /\ collect' = CollectNextRow(collect)
  /\ UNCHANGED <<reply, tableStructure, schema, top3Suggestions, synth,
                 userDB, queryLog, topSlowQuery, outbox, isOpen, cache,
                 alert, consumer, optedIn, lastSet, recording, pollLog>>
  /\ lastRows' = IF "rows" \in recording /\ collect'.dbs # collect.dbs
                   THEN [lastRows EXCEPT ![collect.dbs[1]] = <<collect.rows>>]
                   ELSE lastRows

\* cacheService.invalidateDatabaseCache(db.id) after the row's write.
CollectInvalidate ==
  /\ collect.pc = "invalidate"
  /\ cache' = invalidateDatabaseCache(cache, isOpen, userDB, collect.dbs[1])
  /\ lastSet' = ForgetOnInvalidate(lastSet, isOpen, userDB, collect.dbs[1])
  /\ collect' = CollectNextRow(collect)
  /\ pollLog' = PollInvalidated(pollLog, "collectLogs", collect.dbs[1], isOpen)
  /\ UNCHANGED <<reply, tableStructure, schema, top3Suggestions, synth,
                 userDB, queryLog, topSlowQuery, outbox, isOpen,
                 alert, consumer, optedIn, recording>>
  /\ lastRows' = IF "rows" \in recording /\ collect'.dbs # collect.dbs
                   THEN [lastRows EXCEPT ![collect.dbs[1]] = <<collect.rows>>]
                   ELSE lastRows

\* ------------------------------------------------------ collectAlertQueries
\* prisma.queryLog.findMany({ where: { alertsEnabled: true },
\*                            include: { userDb: true } }): the ids found.
AlertEnabled(rec) == rec.alertsEnabled

\* Mutant: the where clause is dropped, every record is read.
AlertQueryIds_NoFilter(log) == [k \in 1..Len(log) |-> k]

AlertQueryIds(log) == IndicesWhere(log, AlertEnabled, 1)

\* The keys of queriesByDb in the order of their first insertion.
RECURSIVE DbKeys(_, _, _)
DbKeys(log, ids, seen) ==
  IF ids = <<>> THEN <<>>
  ELSE LET d == log[ids[1]].userDbId
       IN IF d \in seen THEN DbKeys(log, Tail(ids), seen)
          ELSE <<d>> \o DbKeys(log, Tail(ids), seen \cup {d})

\* queriesByDb: for every key the alert-enabled records of that database.
GroupByDb(log, ids) ==
  LET keys == DbKeys(log, ids, {})
      Of(d) == LET mine(id) == log[id].userDbId = d
                   sel == SelectSeq(ids, mine)
               IN [k \in 1..Len(sel) |-> [id |-> sel[k], query |-> log[sel[k]].query]]
  IN [k \in 1..Len(keys) |-> [db |-> keys[k], queries |-> Of(keys[k])]]

\* queryMap.has / queryMap.get: the last record set under the text, 0 when
\* the map has no such key.
QueryMapGet(queries, queryText) ==
  LET hit(q) == q.query = queryText
      ks == IndicesWhere(queries, hit, 1)
  IN IF ks = <<>> THEN 0 ELSE queries[ks[Len(ks)]].id

\* The queryObj built for a matched row.
QueryObj(row) ==
  [ query |-> OrEmpty(row.query),
    calls |-> ParseOrZero(row.calls),
    totalTimeMs |-> ParseOrZero(row.total_exec_time),
    meanTimeMs |-> ParseOrZero(row.mean_exec_time),
    rowsReturned |-> ParseOrZero(row.rows),
    collectedAt |-> DateValue ]

\* Mutant: rowsReturned is left out of the update's data.
AlertUpdate_NoRows(rec, queryObj) ==
  [rec EXCEPT !.calls = queryObj.calls, !.totalTimeMs = queryObj.totalTimeMs,
              !.meanTimeMs = queryObj.meanTimeMs, !.collectedAt = DateValue]

\* prisma.queryLog.update of the alert engine: the four metrics and
\* collectedAt.
AlertUpdate(rec, queryObj) ==
  [rec EXCEPT !.calls = queryObj.calls,
              !.totalTimeMs = queryObj.totalTimeMs,
              !.meanTimeMs = queryObj.meanTimeMs,
              !.rowsReturned = queryObj.rowsReturned,
              !.collectedAt = DateValue]

\* Mutant: the rank is taken before the push (zero-based).
TopSlowQueryRow_ZeroBased(userDbId, queryObj, rank) ==
  [ userDbId |-> userDbId, userId |-> "user-0001",
    query |-> queryObj.query, calls |-> queryObj.calls,
    totalTimeMs |-> queryObj.totalTimeMs, meanTimeMs |-> queryObj.meanTimeMs,
    rowsReturned |-> queryObj.rowsReturned, rank |-> rank - 1 ]

\* The row prisma.topSlowQuery.create inserts.
TopSlowQueryRow(userDbId, queryObj, rank) ==
  [ userDbId |-> userDbId, userId |-> "user-0001",
    query |-> queryObj.query, calls |-> queryObj.calls,
    totalTimeMs |-> queryObj.totalTimeMs, meanTimeMs |-> queryObj.meanTimeMs,
    rowsReturned |-> queryObj.rowsReturned, rank |-> rank ]

\* Mutant: a database that was already alerted is not alerted again.
sendQueryAlert_Cooldown(criticalQueries, dbInfo, userEmail) ==
  IF Len(criticalQueries) = 0 \/ \E m \in DOMAIN outbox : outbox[m].dbInfo = dbInfo
    THEN <<>>
    ELSE << [to |-> HARDCODED_EMAIL, dbInfo |-> dbInfo,
             criticalQueries |-> criticalQueries] >>

\* sendQueryAlert: nothing for an empty batch, else one message to sendEmail.
sendQueryAlert(criticalQueries, dbInfo, userEmail) ==
  IF Len(criticalQueries) = 0 THEN <<>>
  ELSE << [to |-> HARDCODED_EMAIL, dbInfo |-> dbInfo,
           criticalQueries |-> criticalQueries] >>

\* The alert engine is done with the current database and goes on to the
\* next key of queriesByDb, or returns after the last.
AlertNextDb_Abort(a) == IdleAlert

AlertNextDb(a) ==
  IF Len(a.groups) <= 1 THEN [IdleAlert EXCEPT !.conn = a.conn \ {a.groups[1].db}]
  ELSE [a EXCEPT !.pc = "connect", !.groups = Tail(a.groups), !.rows = <<>>,
                 !.i = 0, !.criticalQueries = <<>>, !.evBase = 0, !.outBase = 0,
                 !.conn = @ \ {a.groups[1].db}]

\* The alert engine goes on to the next row, or to the dispatch after the
\* last row.
AlertNextRow(a) ==
  IF a.i >= Len(a.rows) THEN [a EXCEPT !.pc = "send"]
  ELSE [a EXCEPT !.pc = "row", !.i = a.i + 1]

\* The cron fires: read the alert-enabled records and group them.
AlertStart ==
  /\ alert.pc = "idle"
  /\ Len(topSlowQuery) < MaxEvents
  /\ LET groups == GroupByDb(queryLog, AlertQueryIds(queryLog))
     IN /\ groups # <<>>
        /\ alert' = [IdleAlert EXCEPT !.pc = "connect", !.groups = groups,
               !.opted = optedIn,
               !.enabled = { <<queryLog[id].userDbId, queryLog[id].query>> :
                               id \in { n \in DOMAIN queryLog : queryLog[n].alertsEnabled } }]
  /\ pollLog' = PollBegin(pollLog, "collectAlertQueries")
  /\ UNCHANGED <<reply, tableStructure, schema, top3Suggestions, synth,
                 userDB, queryLog, topSlowQuery, outbox, isOpen, cache,
                 collect, consumer, optedIn, lastSet, lastRows, recording>>

\* client.connect() and the statistics query of the current database.
AlertQuery(rows) ==
  /\ alert.pc = "connect"
  /\ rows \in StatOutputsOf(alert.groups[1].db)
  /\ Len(topSlowQuery) + Len(rows) <= MaxEvents
  /\ alert' = [alert EXCEPT !.pc = IF rows = <<>> THEN "send" ELSE "row",
                            !.conn = @ \cup {alert.groups[1].db},
                            !.rows = rows,
                            !.i = IF rows = <<>> THEN 0 ELSE 1,
                            !.criticalQueries = <<>>,
                            !.evBase = Len(topSlowQuery),
                            !.outBase = Len(outbox)]
  /\ UNCHANGED <<reply, tableStructure, schema, top3Suggestions, synth,
                 userDB, queryLog, topSlowQuery, outbox, isOpen, cache,
                 collect, consumer, optedIn, lastSet, lastRows, recording, pollLog>>

\* One row of the result set: skipped when its text is not in queryMap or
\* it is not critical; a critical row is pushed and its record updated.
AlertRow ==
  /\ alert.pc = "row"
  /\ LET row == alert.rows[alert.i]
         id == QueryMapGet(alert.groups[1].queries, OrEmpty(row.query))
         queryObj == QueryObj(row)
     IN IF id # 0 /\ isCriticalQuery(queryObj)
          THEN /\ queryLog' = [queryLog EXCEPT ![id] = AlertUpdate(queryLog[id], queryObj)]
               /\ alert' = [alert EXCEPT !.pc = "invalidate",
                      !.criticalQueries = Append(alert.criticalQueries, queryObj)]
               /\ pollLog' = PollWrote(pollLog, "collectAlertQueries",
                                       alert.groups[1].db)
          ELSE /\ queryLog' = queryLog
               /\ alert' = AlertNextRow(alert)
               /\ pollLog' = pollLog
  /\ UNCHANGED <<reply, tableStructure, schema, top3Suggestions, synth,
                 userDB, topSlowQuery, outbox, isOpen, cache,
                 collect, consumer, optedIn, lastSet, lastRows, recording>>

\* cacheService.invalidateDatabaseCache(db.id) after the record's update.
AlertInvalidate ==
  /\ alert.pc = "invalidate"
  /\ cache' = invalidateDatabaseCache(cache, isOpen, userDB, alert.groups[1].db)
  /\ lastSet' = ForgetOnInvalidate(lastSet, isOpen, userDB, alert.groups[1].db)
  /\ alert' = [alert EXCEPT !.pc = "record"]
  /\ pollLog' = PollInvalidated(pollLog, "collectAlertQueries",
                                 alert.groups[1].db, isOpen)
  /\ UNCHANGED <<reply, tableStructure, schema, top3Suggestions, synth,
                 userDB, queryLog, topSlowQuery, outbox, isOpen,
                 collect, consumer, optedIn, lastRows, recording>>

\* prisma.topSlowQuery.create for the critical row just pushed.
AlertRecord ==
  /\ alert.pc = "record"
  /\ topSlowQuery' = Append(topSlowQuery,
        TopSlowQueryRow(alert.groups[1].db,
                        alert.criticalQueries[Len(alert.criticalQueries)],
                        Len(alert.criticalQueries)))
  /\ alert' = AlertNextRow(alert)
  /\ UNCHANGED <<reply, tableStructure, schema, top3Suggestions, synth,
                 userDB, queryLog, outbox, isOpen, cache,
                 collect, consumer, optedIn, lastSet, lastRows, recording, pollLog>>

\* After the rows: one sendQueryAlert when criticalQueries is not empty.
AlertSend ==
  /\ alert.pc = "send"
  /\ outbox' = IF Len(alert.criticalQueries) > 0
                 THEN outbox \o sendQueryAlert(alert.criticalQueries,
                                               alert.groups[1].db, HARDCODED_EMAIL)
                 ELSE outbox
  /\ alert' = AlertNextDb(alert)
  /\ UNCHANGED <<reply, tableStructure, schema, top3Suggestions, synth,
                 userDB, queryLog, topSlowQuery, isOpen, cache,
                 collect, consumer, optedIn, lastSet, lastRows, recording, pollLog>>

\* prisma.queryLog.update of a critical row, or prisma.topSlowQuery.create
\* of its event, rejects: no catch surrounds the row, so the error reaches
\* the catch of the database, which skips the remaining rows and the
\* dispatch.
AlertRowFail ==
  /\ \/ alert.pc = "record"
     \/ /\ alert.pc = "row"
        /\ QueryMapGet(alert.groups[1].queries,
                       OrEmpty(alert.rows[alert.i].query)) # 0
        /\ isCriticalQuery(QueryObj(alert.rows[alert.i]))
  /\ alert' = AlertNextDb(alert)
  /\ UNCHANGED <<reply, tableStructure, schema, top3Suggestions, synth,
                 userDB, queryLog, topSlowQuery, outbox, isOpen, cache,
                 collect, consumer, optedIn, lastSet, lastRows, recording, pollLog>>

\* client.connect() or the statistics query throws: the catch of the
\* database logs it, and the loop goes on after client.end().
AlertConnectFail ==
  /\ alert.pc = "connect"
  /\ alert' = AlertNextDb([alert EXCEPT !.failed = @ \cup {alert.groups[1].db}])
  /\ UNCHANGED <<reply, tableStructure, schema, top3Suggestions, synth,
                 userDB, queryLog, topSlowQuery, outbox, isOpen, cache,
                 collect, consumer, optedIn, lastSet, lastRows, recording, pollLog>>

\* sendQueryAlert throws: the catch around the dispatch logs it.
AlertSendFail ==
  /\ alert.pc = "send"
  /\ Len(alert.criticalQueries) > 0
  /\ alert' = AlertNextDb(alert)
  /\ UNCHANGED <<reply, tableStructure, schema, top3Suggestions, synth,
                 userDB, queryLog, topSlowQuery, outbox, isOpen, cache,
                 collect, consumer, optedIn, lastSet, lastRows, recording, pollLog>>

\* --------------------------------------------------------- collectTableData
getRowCount_Zero(result) == <<result.count>>

\* getRowCount: the count, or null (<<>>) when the query throws.
getRowCount(result) == IF result.ok THEN <<result.count>> ELSE <<>>

\* getTableStructure: the results of the five queries put together.
getTableStructure(meta, countResult) ==
  [ columns |-> meta.columns, primaryKeys |-> meta.primaryKeys,
    foreignKeys |-> meta.foreignKeys, indexes |-> meta.indexes,
    rowCount |-> getRowCount(countResult) ]

\* The row of (userDbId, "public", tableName), 0 when there is none.
FindTable(tables, userDbId, tableName) ==
  LET ids == { n \in DOMAIN tables :
                 tables[n].userDbId = userDbId /\ tables[n].tableName = tableName }
  IN IF ids = {} THEN 0 ELSE CHOOSE n \in ids : TRUE

UpsertTable_Sync(tables, userDbId, tableName, tableData) ==
  LET other(r) == r.userDbId # userDbId
      row == [ userDbId |-> userDbId, tableName |-> tableName,
               schemaName |-> "public",
               columns |-> tableData.columns,
               primaryKeys |-> tableData.primaryKeys,
               foreignKeys |-> tableData.foreignKeys,
               indexes |-> tableData.indexes,
               rowCount |-> tableData.rowCount, updatedAt |-> DateValue ]
  IN Append(SelectSeq(tables, other), row)

\* prisma.tableStructure.upsert on (userDbId, schemaName, tableName).
UpsertTable(tables, userDbId, tableName, tableData) ==
  LET id == FindTable(tables, userDbId, tableName)
      row == [ userDbId |-> userDbId, tableName |-> tableName,
               schemaName |-> "public",
               columns |-> tableData.columns,
               primaryKeys |-> tableData.primaryKeys,
               foreignKeys |-> tableData.foreignKeys,
               indexes |-> tableData.indexes,
               rowCount |-> tableData.rowCount, updatedAt |-> DateValue ]
  IN IF id = 0 THEN Append(tables, row) ELSE [tables EXCEPT ![id] = row]

\* collectTableDataForDatabase returns (finally: client.end()); the loop of
\* collectTableData goes on to the next database.
SchemaNextDb(c) ==
  IF Len(c.dbs) <= 1
    THEN [IdleSchema EXCEPT !.stored = c.stored, !.failed = c.failed,
                            !.conn = c.conn \ {c.dbs[1]}]
    ELSE [IdleSchema EXCEPT !.pc = "connect", !.dbs = Tail(c.dbs),
                            !.stored = c.stored, !.failed = c.failed,
                            !.conn = c.conn \ {c.dbs[1]}]

\* The loop over the tables goes on to the next table.
SchemaNextTable(c) ==
  IF c.i >= Len(c.tables) THEN SchemaNextDb(c)
  ELSE [c EXCEPT !.pc = "structure", !.i = c.i + 1, !.tableData = <<>>,
                 !.count = <<>>]

\* The cron fires: read the monitored databases.
SchemaStart ==
  /\ schema.pc = "idle"
  /\ MonitoredDbs # <<>>
  /\ schema' = [IdleSchema EXCEPT !.pc = "connect", !.dbs = MonitoredDbs]
  /\ pollLog' = PollBegin(pollLog, "collectTableData")
  /\ UNCHANGED <<reply, userDB, queryLog, topSlowQuery, outbox, isOpen, cache,
                 collect, alert, consumer, optedIn, lastSet, lastRows,
                 recording, tableStructure, top3Suggestions, synth>>

\* client.connect() and getTables: a failure is caught per database.
SchemaConnect(ok, tables) ==
  /\ schema.pc = "connect"
  /\ tables \in TableLists
  /\ ~ok => tables = <<>>
  /\ LET connected == [schema EXCEPT !.conn = @ \cup {schema.dbs[1]}]
     IN schema' = IF ~ok THEN SchemaNextDb(schema)
                  ELSE IF tables = <<>> THEN SchemaNextDb(connected)
                  ELSE [connected EXCEPT !.pc = "structure", !.tables = tables,
                                         !.i = 1]
  /\ UNCHANGED <<reply, userDB, queryLog, topSlowQuery, outbox, isOpen, cache,
                 collect, alert, consumer, optedIn, lastSet, lastRows,
                 recording, pollLog, tableStructure, top3Suggestions, synth>>

\* getTableStructure of the current table: Promise.all rejects when one of
\* the four metadata queries throws; getRowCount never throws.
SchemaStructure(metaOk, meta, countResult) ==
  /\ schema.pc = "structure"
  /\ meta \in TableMetas
  /\ countResult \in CountResults
  /\ schema' = IF metaOk
                  THEN [schema EXCEPT !.pc = "upsert",
                          !.tableData = <<getTableStructure(meta, countResult)>>,
                          !.count = <<countResult>>]
                  ELSE SchemaNextTable(
                         [schema EXCEPT !.failed =
                            @ \cup {<<schema.dbs[1], schema.tables[schema.i]>>}])
  /\ UNCHANGED <<reply, userDB, queryLog, topSlowQuery, outbox, isOpen, cache,
                 collect, alert, consumer, optedIn, lastSet, lastRows,
                 recording, pollLog, tableStructure, top3Suggestions, synth>>

\* prisma.tableStructure.upsert of the current table; a rejected upsert is
\* caught per table.  No cache key is touched.
SchemaUpsert(ok) ==
  /\ schema.pc = "upsert"
  /\ LET name == schema.tables[schema.i]
         db == schema.dbs[1]
     IN IF ok
          THEN /\ tableStructure' =
                    UpsertTable(tableStructure, db, name, schema.tableData[1])
               /\ schema' = SchemaNextTable(
                               [schema EXCEPT !.stored = @ \cup {<<db, name>>}])
               /\ pollLog' = PollWrote(pollLog, "collectTableData", db)
          ELSE /\ tableStructure' = tableStructure
               /\ schema' = SchemaNextTable(
                               [schema EXCEPT !.failed = @ \cup {<<db, name>>}])
               /\ pollLog' = pollLog
  /\ UNCHANGED <<reply, userDB, queryLog, topSlowQuery, outbox, isOpen, cache,
                 collect, alert, consumer, optedIn, lastSet, lastRows,
                 recording, top3Suggestions, synth>>

\* --------------------------------------------------------- enableQueryAlert
\* The record created for a query that was never observed.
EnableCreate(userDbId, query) ==
  [ userDbId |-> userDbId, query |-> query, queryHash |-> hashQuery(query),
    calls |-> 0, totalTimeMs |-> 0, meanTimeMs |-> 0, rowsReturned |-> 0,
    collectedAt |-> DateValue, alertsEnabled |-> TRUE ]

\* POST /alert-query: find the caller's UserDB row (404 without one), look
\* the record up by (hash, database) and set alertsEnabled on it, or create
\* it; a create the unique index rejects throws into the handler's catch
\* (status 500).
enableQueryAlert(username, query) ==
  /\ query \in WorkloadOf[DbIdOf[username]]
  /\ userDB[DbIdOf[username]].present
  /\ LET db == DbIdOf[username]
         existing == FindFirstByHash(queryLog, db, hashQuery(query))
     IN IF existing # 0
          THEN /\ queryLog' = [queryLog EXCEPT ![existing].alertsEnabled = TRUE]
               /\ optedIn' = optedIn \cup {<<db, query>>}
               /\ reply' = Reply(reply, db, query, 200, FALSE)
          ELSE IF QueryHashTaken(queryLog, hashQuery(query))
            THEN /\ queryLog' = queryLog
                 /\ optedIn' = optedIn
                 /\ reply' = Reply(reply, db, query, 500, FALSE)
            ELSE /\ queryLog' = Append(queryLog, EnableCreate(db, query))
                 /\ optedIn' = optedIn \cup {<<db, query>>}
                 /\ reply' = Reply(reply, db, query, 200, TRUE)
  /\ UNCHANGED <<tableStructure, schema, top3Suggestions, synth,
                 userDB, topSlowQuery, outbox, isOpen, cache,
                 collect, alert, consumer, lastSet, lastRows, recording, pollLog>>

\* ------------------------------------------------- cacheService: contexts
\* orderBy: { meanTimeMs: "desc" } (rows of equal mean keep their order).
RECURSIVE InsertByMean(_, _)
InsertByMean(rec, sorted) ==
  IF sorted = <<>> THEN <<rec>>
  ELSE IF rec.meanTimeMs > sorted[1].meanTimeMs THEN <<rec>> \o sorted
       ELSE <<sorted[1]>> \o InsertByMean(rec, Tail(sorted))

RECURSIVE SortByMeanDesc(_)
SortByMeanDesc(recs) ==
  IF recs = <<>> THEN <<>>
  ELSE InsertByMean(recs[Len(recs)], SortByMeanDesc(SubSeq(recs, 1, Len(recs) - 1)))

\* prisma.queryLog.findMany({ where: { userDbId }, orderBy, take: 20 })
TopQueryLogs(log, userDbId) ==
  LET mine(r) == r.userDbId = userDbId
      sorted == SortByMeanDesc(SelectSeq(log, mine))
  IN SubSeq(sorted, 1, IF Len(sorted) < TOP_QUERIES THEN Len(sorted) ELSE TOP_QUERIES)

\* buildDatabaseContextString: "" without data, else one numbered entry
\* per query log followed by one entry per table structure.
buildDatabaseContextString(queryLogs, tableStructures) ==
  IF Len(queryLogs) = 0 /\ Len(tableStructures) = 0 THEN <<>>
  ELSE [k \in 1..Len(queryLogs) |->
          [index |-> k, query |-> queryLogs[k].query, calls |-> queryLogs[k].calls,
           meanTime |-> queryLogs[k].meanTimeMs, totalTime |-> queryLogs[k].totalTimeMs]]
       \o
       [k \in 1..Len(tableStructures) |->
          [table |-> tableStructures[k].tableName,
           rows |-> tableStructures[k].rowCount,
           columns |-> tableStructures[k].columns,
           primaryKeys |-> tableStructures[k].primaryKeys,
           indexes |-> tableStructures[k].indexes]]

\* prisma.tableStructure.findMany({ where: { userDbId } })
TableStructuresOf(tables, userDbId) ==
  LET mine(t) == t.userDbId = userDbId
  IN SelectSeq(tables, mine)

\* The context object buildAndCacheQueryContext builds for a known user.
BuildContext(log, tables, userDbId) ==
  LET queryLogs == TopQueryLogs(log, userDbId)
      tableStructures == TableStructuresOf(tables, userDbId)
  IN [ userDbId |-> userDbId, queryLogs |-> queryLogs,
       tableStructures |-> tableStructures,
       databaseContext |-> buildDatabaseContextString(queryLogs, tableStructures),
       cachedAt |-> IsoString ]

\* The context returned for a username without a UserDB row.
EmptyContext == [ databaseContext |-> <<>>, queryLogs |-> <<>>, tableStructures |-> <<>> ]

\* JSON.stringify(context): a Date is written as its ISO-8601 string.
ToJson(rec) == [rec EXCEPT !.collectedAt = IsoString]

TableToJson(rec) == [rec EXCEPT !.updatedAt = IsoString]

JSONstringify(context) ==
  [ json |-> [context EXCEPT
                 !.queryLogs =
                    [k \in 1..Len(context.queryLogs) |-> ToJson(context.queryLogs[k])],
                 !.tableStructures =
                    [k \in 1..Len(context.tableStructures) |->
                       TableToJson(context.tableStructures[k])]] ]

\* JSON.parse(cached): the value the text denotes (strings stay strings).
JSONparse(cached) == cached.json

\* getQueryContext: <<>> (null) when Redis is closed or the key is absent.
getQueryContext(c, open, username) ==
  IF ~open THEN <<>>
  ELSE IF c[getCacheKey(username)] = <<>> THEN <<>>
       ELSE << JSONparse(c[getCacheKey(username)][1].value) >>

\* setQueryContext: SETEX key CACHE_TTL serialized, skipped when Redis is
\* closed.
setQueryContext(c, open, username, context) ==
  IF ~open THEN c
  ELSE [c EXCEPT ![getCacheKey(username)] =
          << [value |-> JSONstringify(context), ttl |-> CACHE_TTL] >>]

\* --------------------------------------- context consumer (aiController)
\* let context = await cacheService.getQueryContext(req.user.username)
ConsumerGet(username) ==
  /\ consumer.pc = "idle"
  /\ LET got == getQueryContext(cache, isOpen, username)
     IN consumer' = [pc |-> IF got = <<>> THEN "miss" ELSE "hit",
                     username |-> username, context |-> got,
                     open |-> isOpen, expect |-> lastSet[username]]
  /\ UNCHANGED <<reply, tableStructure, schema, top3Suggestions, synth,
                 userDB, queryLog, topSlowQuery, outbox, isOpen, cache,
                 collect, alert, optedIn, lastSet, lastRows, recording, pollLog>>

\* Cache hit: the cached context is used as it is.
ConsumerHit ==
  /\ consumer.pc = "hit"
  /\ consumer' = IdleConsumer
  /\ UNCHANGED <<reply, tableStructure, schema, top3Suggestions, synth,
                 userDB, queryLog, topSlowQuery, outbox, isOpen, cache,
                 collect, alert, optedIn, lastSet, lastRows, recording, pollLog>>

\* Cache miss: buildAndCacheQueryContext reads the store; a username
\* without a UserDB row gets the empty context and nothing is cached.
ConsumerBuild ==
  /\ consumer.pc = "miss"
  /\ LET db == DbIdOf[consumer.username]
     IN consumer' = IF userDB[db].present
                      THEN [consumer EXCEPT !.pc = "set",
                                            !.context = <<BuildContext(queryLog, tableStructure, db)>>]
                      ELSE IdleConsumer
  /\ UNCHANGED <<reply, tableStructure, schema, top3Suggestions, synth,
                 userDB, queryLog, topSlowQuery, outbox, isOpen, cache,
                 collect, alert, optedIn, lastSet, lastRows, recording, pollLog>>

\* await this.setQueryContext(username, context)
ConsumerSet ==
  /\ consumer.pc = "set"
  /\ cache' = setQueryContext(cache, isOpen, consumer.username, consumer.context[1])
  /\ lastSet' = IF isOpen THEN [lastSet EXCEPT ![consumer.username] = consumer.context]
                 ELSE lastSet
  /\ consumer' = IdleConsumer
  /\ pollLog' = IF isOpen THEN PollStored(pollLog, DbIdOf[consumer.username])
                 ELSE pollLog
  /\ UNCHANGED <<reply, tableStructure, schema, top3Suggestions, synth,
                 userDB, queryLog, topSlowQuery, outbox, isOpen,
                 collect, alert, optedIn, lastRows, recording>>

\* POST /ai/cache/invalidate
InvalidateEndpoint(username) ==
  /\ cache[getCacheKey(username)] # <<>>
  /\ cache' = invalidateUserCache(cache, isOpen, username)
  /\ lastSet' = IF isOpen THEN [lastSet EXCEPT ![username] = <<>>] ELSE lastSet
  /\ cache' # cache
  /\ UNCHANGED <<reply, tableStructure, schema, top3Suggestions, synth,
                 userDB, queryLog, topSlowQuery, outbox, isOpen,
                 collect, alert, consumer, optedIn, lastRows, recording, pollLog>>

\* ---------------------------------------------------------------- Redis
\* Half of the time-to-live passes: every key ages, a key whose time is up
\* is dropped by Redis.
TickSeconds == CACHE_TTL \div 2

Tick ==
  /\ \E k \in CacheKeys : cache[k] # <<>>
  /\ cache' = [k \in CacheKeys |->
        IF cache[k] = <<>> \/ cache[k][1].ttl <= TickSeconds THEN <<>>
        ELSE << [cache[k][1] EXCEPT !.ttl = cache[k][1].ttl - TickSeconds] >>]
  /\ lastSet' = [u \in Usernames |->
        IF cache'[getCacheKey(u)] = <<>> THEN <<>> ELSE lastSet[u]]
  /\ UNCHANGED <<reply, tableStructure, schema, top3Suggestions, synth,
                 userDB, queryLog, topSlowQuery, outbox, isOpen,
                 collect, alert, consumer, optedIn, lastRows, recording, pollLog>>

\* The connection to Redis drops or comes back.
RedisFlip ==
  /\ isOpen' = ~isOpen
  /\ UNCHANGED <<reply, tableStructure, schema, top3Suggestions, synth,
                 userDB, queryLog, topSlowQuery, outbox, cache,
                 collect, alert, consumer, optedIn, lastSet, lastRows, recording, pollLog>>

\* ------------------------------------------------------- suggestionAnalyzer
\* The TableUsage table: no code of the repository writes it.
TableUsageRows == <<>>

RECURSIVE SumOf(_, _)
SumOf(recs, field) ==
  IF recs = <<>> THEN 0 ELSE recs[1][field] + SumOf(Tail(recs), field)

\* Math.round of a quotient of non-negative integers.
MathRound(num, den) == (2 * num + den) \div (2 * den)

\* calculatePerformanceStats: avgQueryTime is <<n>>, or <<>> for the NaN
\* that 0 / 0 yields when no listed record has a call.
calculatePerformanceStats(queryLogs) ==
  IF Len(queryLogs) = 0
    THEN [avgQueryTime |-> <<0>>, totalCalls |-> 0, totalTime |-> 0]
    ELSE LET totalCalls == SumOf(queryLogs, "calls")
             totalTime == SumOf(queryLogs, "totalTimeMs")
         IN [avgQueryTime |-> IF totalCalls = 0 THEN <<>>
                              ELSE <<MathRound(totalTime, totalCalls)>>,
             totalCalls |-> totalCalls, totalTime |-> totalTime]

\* analyzeTableUsage: the five most used tables and the tables without a
\* usage row.
analyzeTableUsage(tableUsages, tableStructures) ==
  LET used == { tableUsages[k].tableName : k \in DOMAIN tableUsages }
      unused(t) == t.tableName \notin used
  IN [ mostUsedTables |->
         SubSeq(tableUsages, 1, IF Len(tableUsages) < 5 THEN Len(tableUsages) ELSE 5),
       unusedTables |-> SelectSeq(tableStructures, unused) ]

\* What gatherDatabaseMetrics returns when one of its reads throws.
NoMetrics ==
  [ hasData |-> FALSE, totalQueries |-> 0, totalTables |-> 0,
    avgQueryTime |-> <<0>>, mostUsedTables |-> 0, unusedTables |-> 0 ]

gatherDatabaseMetrics_Always(log, tables, userDbId) ==
  LET queryLogs == TopQueryLogs(log, userDbId)
      tableStructures == TableStructuresOf(tables, userDbId)
      performanceStats == calculatePerformanceStats(queryLogs)
      tableAnalysis == analyzeTableUsage(TableUsageRows, tableStructures)
  IN [ hasData |-> TRUE,
       totalQueries |-> Len(queryLogs),
       totalTables |-> Len(tableStructures),
       avgQueryTime |-> performanceStats.avgQueryTime,
       mostUsedTables |-> Len(tableAnalysis.mostUsedTables),
       unusedTables |-> Len(tableAnalysis.unusedTables) ]

\* gatherDatabaseMetrics: the counts and statistics the job and the fallback
\* read; hasData is true with at least one query log or one table structure.
gatherDatabaseMetrics(log, tables, userDbId) ==
  LET queryLogs == TopQueryLogs(log, userDbId)
      tableStructures == TableStructuresOf(tables, userDbId)
      performanceStats == calculatePerformanceStats(queryLogs)
      tableAnalysis == analyzeTableUsage(TableUsageRows, tableStructures)
  IN [ hasData |-> Len(queryLogs) > 0 \/ Len(tableStructures) > 0,
       totalQueries |-> Len(queryLogs),
       totalTables |-> Len(tableStructures),
       avgQueryTime |-> performanceStats.avgQueryTime,
       mostUsedTables |-> Len(tableAnalysis.mostUsedTables),
       unusedTables |-> Len(tableAnalysis.unusedTables) ]

\* JSON values: kind is "array", "object", "string" or "null"; id names an
\* object (its title), detail is the number its description quotes, items
\* are the elements of an array.
JsonObject(id, detail) ==
  [kind |-> "object", id |-> id, detail |-> detail, items |-> <<>>]

JsonArray(items) == [kind |-> "array", id |-> "", detail |-> 0, items |-> items]

JsonNull == [kind |-> "null", id |-> "", detail |-> 0, items |-> <<>>]

JsonString == [kind |-> "string", id |-> "", detail |-> 0, items |-> <<>>]

\* generateFallbackSuggestions: three suggestions chosen by the metrics.
generateFallbackSuggestions(dbMetrics) ==
  LET avg == dbMetrics.avgQueryTime
      first == IF avg # <<>> /\ avg[1] > 100
                 THEN JsonObject("Optimize Query Performance", avg[1])
                 ELSE JsonObject("Monitor Query Performance", 0)
      second == IF dbMetrics.unusedTables > 0
                  THEN JsonObject("Clean Up Unused Tables", dbMetrics.unusedTables)
                  ELSE IF dbMetrics.mostUsedTables > 0
                    THEN JsonObject("Optimize Table Access Patterns", 0)
                    ELSE JsonObject("Review Database Schema", 0)
      third == IF dbMetrics.totalTables > 10
                 THEN JsonObject("Consider Table Partitioning", dbMetrics.totalTables)
                 ELSE JsonObject("Review Database Configuration", 0)
  IN JsonArray(<<first, second, third>>)

\* The text of a response as a sequence of tokens: "p" is a word of prose,
\* "o1".."o4" are object literals, "s" is a string literal, "n" is null,
\* and "[", "," and "]" are themselves.
ObjectTokens == {"o1", "o2", "o3", "o4"}

\* /\[[\s\S]*\]/ : the text from the first "[" to the last "]" (the star is
\* greedy), <<>> without a match.
RegexMatch(text) ==
  LET opens == { k \in DOMAIN text : text[k] = "[" }
      closes == { k \in DOMAIN text : text[k] = "]" }
  IN IF opens = {} \/ closes = {} THEN <<>>
     ELSE LET from == CHOOSE k \in opens : \A m \in opens : k <= m
              to == CHOOSE k \in closes : \A m \in closes : k >= m
          IN IF to > from THEN SubSeq(text, from, to) ELSE <<>>

ParseFail == [ok |-> FALSE, val |-> JsonNull, next |-> 0]

RECURSIVE ParseValue(_, _)
RECURSIVE ParseItems(_, _, _)
\* JSON.parse reading one value at position k.
ParseValue(text, k) ==
  IF k > Len(text) THEN ParseFail
  ELSE IF text[k] \in ObjectTokens
    THEN [ok |-> TRUE, val |-> JsonObject(text[k], 0), next |-> k + 1]
  ELSE IF text[k] = "n" THEN [ok |-> TRUE, val |-> JsonNull, next |-> k + 1]
  ELSE IF text[k] = "s" THEN [ok |-> TRUE, val |-> JsonString, next |-> k + 1]
  ELSE IF text[k] = "["
    THEN IF k + 1 <= Len(text) /\ text[k + 1] = "]"
           THEN [ok |-> TRUE, val |-> JsonArray(<<>>), next |-> k + 2]
           ELSE ParseItems(text, k + 1, <<>>)
  ELSE ParseFail

\* JSON.parse reading the elements of an array from position k on.
ParseItems(text, k, acc) ==
  LET v == ParseValue(text, k)
  IN IF ~v.ok \/ v.next > Len(text) THEN ParseFail
     ELSE IF text[v.next] = ","
       THEN ParseItems(text, v.next + 1, Append(acc, v.val))
     ELSE IF text[v.next] = "]"
       THEN [ok |-> TRUE, val |-> JsonArray(Append(acc, v.val)), next |-> v.next + 1]
     ELSE ParseFail

\* JSON.parse of a whole text: one value and nothing after it.
JSONparseText(text) ==
  LET v == ParseValue(text, 1)
  IN IF v.ok /\ v.next = Len(text) + 1 THEN v ELSE ParseFail

\* Lines 254-267: parse the match of the regular expression, or the whole
\* response without a match; the fallback when JSON.parse throws.
ParseSuggestions(response, dbMetrics) ==
  LET jsonMatch == RegexMatch(response)
      parsed == IF jsonMatch # <<>> THEN JSONparseText(jsonMatch)
                ELSE JSONparseText(response)
  IN IF parsed.ok THEN parsed.val ELSE generateFallbackSuggestions(dbMetrics)

\* Lines 270-273: an array of three is kept; otherwise suggestions?.slice(0, 3)
\* || []: the first three elements of an array, [] for null, the first
\* characters of a string, and a TypeError for a value without slice.
EnsureThree(suggestions) ==
  IF suggestions.kind = "array" /\ Len(suggestions.items) = 3
    THEN [ok |-> TRUE, val |-> suggestions]
  ELSE IF suggestions.kind = "array"
    THEN [ok |-> TRUE,
          val |-> JsonArray(SubSeq(suggestions.items, 1,
                    IF Len(suggestions.items) < 3 THEN Len(suggestions.items) ELSE 3))]
  ELSE IF suggestions.kind = "null" THEN [ok |-> TRUE, val |-> JsonArray(<<>>)]
  ELSE IF suggestions.kind = "string" THEN [ok |-> TRUE, val |-> JsonString]
  ELSE [ok |-> FALSE, val |-> JsonNull]

\* What the model can answer: prose, or nothing, before and after a body.
SynthLeads == { <<>>, <<"p">>, <<"p", "[", "p", "]", "p">> }

SynthTrails == { <<>>, <<"p">>, <<"p", "[", "p", "]">> }

SynthBodies ==
  { <<>>, <<"p">>, <<"o1">>, <<"n">>, <<"s">>,
    <<"[", "]">>,
    <<"[", "o1", "]">>,
    <<"[", "o1", ",", "o2", "]">>,
    <<"[", "o1", ",", "o2", ",", "o3", "]">>,
    <<"[", "s", ",", "n", ",", "o1", "]">>,
    <<"[", "o1", ",", "o2", ",", "o3", ",", "o4", "]">> }

SynthResponses ==
  { lead \o body \o trail :
      lead \in SynthLeads, body \in SynthBodies, trail \in SynthTrails }

SynthNextDb_Abort(c) ==
  [IdleSynth EXCEPT !.skipped = c.skipped, !.asked = c.asked,
                    !.threw = c.threw, !.written = c.written]

\* The loop over the databases goes on to the next database, or the run
\* returns after the last.
SynthNextDb(c) ==
  IF Len(c.dbs) <= 1
    THEN [IdleSynth EXCEPT !.skipped = c.skipped, !.asked = c.asked,
                           !.threw = c.threw, !.written = c.written]
    ELSE [IdleSynth EXCEPT !.pc = "gather", !.dbs = Tail(c.dbs),
                           !.skipped = c.skipped, !.asked = c.asked,
                           !.threw = c.threw, !.written = c.written,
                           !.by = c.by]

\* The cron fires: read the monitored databases.
SynthStart ==
  /\ synth.pc = "idle"
  /\ MonitoredDbs # <<>>
  /\ synth' = [IdleSynth EXCEPT !.pc = "gather", !.dbs = MonitoredDbs,
                               !.by = "cron"]
  /\ UNCHANGED <<reply, userDB, queryLog, topSlowQuery, outbox, isOpen, cache,
                 collect, alert, consumer, optedIn, lastSet, lastRows,
                 recording, pollLog, tableStructure, schema, top3Suggestions>>

\* GET /get-insights while no synthesis run is in progress: 404 without a
\* UserDB row of the user; otherwise the handler reads the suggestions of
\* the user's database, calls runSuggestionAnalysis() without awaiting it,
\* and answers with what it read. runSuggestionAnalysis is
\* analyzeAndUpdateSuggestions: the run the cron starts.
analyzeQueries(username) ==
  /\ synth.pc = "idle"
  /\ synth' = IF userDB[DbIdOf[username]].present /\ MonitoredDbs # <<>>
                THEN [IdleSynth EXCEPT !.pc = "gather", !.dbs = MonitoredDbs,
                                       !.by = "get-insights"]
                ELSE synth
  /\ UNCHANGED <<reply, userDB, queryLog, topSlowQuery, outbox, isOpen, cache,
                 collect, alert, consumer, optedIn, lastSet, lastRows,
                 recording, pollLog, tableStructure, schema, top3Suggestions>>

\* gatherDatabaseMetrics of the current database (a read that throws gives
\* hasData false); without data the loop continues with the next database.
SynthGather(ok) ==
  /\ synth.pc = "gather"
  /\ LET dbMetrics == IF ok THEN gatherDatabaseMetrics(queryLog, tableStructure,
                                                       synth.dbs[1])
                      ELSE NoMetrics
     IN synth' = IF dbMetrics.hasData
                   THEN [synth EXCEPT !.pc = "ask", !.dbMetrics = <<dbMetrics>>]
                   ELSE SynthNextDb(
                          [synth EXCEPT !.skipped = @ \cup {synth.dbs[1]}])
  /\ UNCHANGED <<reply, userDB, queryLog, topSlowQuery, outbox, isOpen, cache,
                 collect, alert, consumer, optedIn, lastSet, lastRows,
                 recording, pollLog, tableStructure, schema, top3Suggestions>>

\* gemini.generateResponse is called with the metrics.
SynthAsk ==
  /\ synth.pc = "ask"
  /\ synth' = [synth EXCEPT !.pc = "respond", !.asked = @ \cup {synth.dbs[1]}]
  /\ UNCHANGED <<reply, userDB, queryLog, topSlowQuery, outbox, isOpen, cache,
                 collect, alert, consumer, optedIn, lastSet, lastRows,
                 recording, pollLog, tableStructure, schema, top3Suggestions>>

\* The call returns a text or throws (caught per database).  The text is
\* parsed and cut to three; a TypeError of the cut is caught per database.
SynthRespond(ok, response) ==
  /\ synth.pc = "respond"
  /\ response \in SynthResponses
  /\ ~ok => response = <<>>
  /\ synth' =
       IF ~ok
         THEN SynthNextDb([synth EXCEPT !.threw = @ \cup {synth.dbs[1]}])
         ELSE LET suggestions ==
                    EnsureThree(ParseSuggestions(response, synth.dbMetrics[1]))
              IN IF suggestions.ok
                   THEN [synth EXCEPT !.pc = "upsert",
                                      !.response = <<response>>,
                                      !.suggestions = <<suggestions.val>>]
                   ELSE SynthNextDb(synth)
  /\ UNCHANGED <<reply, userDB, queryLog, topSlowQuery, outbox, isOpen, cache,
                 collect, alert, consumer, optedIn, lastSet, lastRows,
                 recording, pollLog, tableStructure, schema, top3Suggestions>>

\* prisma.top3Suggestions.upsert on userDbId; a rejected upsert is caught
\* per database.
SynthUpsert(ok) ==
  /\ synth.pc = "upsert"
  /\ IF ok
       THEN /\ top3Suggestions' =
                 [top3Suggestions EXCEPT ![synth.dbs[1]] = synth.suggestions]
            /\ synth' = SynthNextDb([synth EXCEPT !.written = @ \cup {synth.dbs[1]}])
       ELSE /\ top3Suggestions' = top3Suggestions
            /\ synth' = SynthNextDb(synth)
  /\ UNCHANGED <<reply, userDB, queryLog, topSlowQuery, outbox, isOpen, cache,
                 collect, alert, consumer, optedIn, lastSet, lastRows,
                 recording, pollLog, tableStructure, schema>>

\* ----------------------------------------------------------- specification
\* The scheduler fires a job while the other job is not running.
CollectFire == alert.pc = "idle" /\ CollectStart

AlertFire == collect.pc = "idle" /\ AlertStart

\* The two cron jobs run one at a time; the HTTP handlers run at any await
\* of a job.
Next ==
  \/ \E u \in Usernames, hasAccess \in BOOLEAN : connectDatabase(u, hasAccess)
  \/ \E u \in Usernames, q \in QueryTexts : enableQueryAlert(u, q)
  \/ CollectFire
  \/ \E rows \in StatOutputs : CollectQuery(rows)
  \/ CollectFind
  \/ CollectWrite
  \/ CollectInvalidate
  \/ AlertFire
  \/ \E rows \in StatOutputs : AlertQuery(rows)
  \/ AlertRow
  \/ AlertInvalidate
  \/ AlertRecord
  \/ AlertSend

Spec == Init /\ [][Next]_vars

\* The collection job alone, with the history of its result sets kept.
InitCollect ==
  /\ userDB = [d \in DbIds |-> [present |-> FALSE, monitoringEnabled |-> FALSE]]
  /\ queryLog = <<>>
  /\ topSlowQuery = <<>>
  /\ outbox = <<>>
  /\ isOpen = TRUE
  /\ cache = [k \in CacheKeys |-> <<>>]
  /\ collect = IdleCollect
  /\ alert = IdleAlert
  /\ consumer = IdleConsumer
  /\ optedIn = {}
  /\ recording = {"rows"}
  /\ lastRows = [d \in DbIds |-> <<>>]
  /\ pollLog = [e \in Jobs |-> IdlePoll]
  /\ lastSet = [u \in Usernames |-> <<>>]
  /\ tableStructure = <<>>
  /\ schema = IdleSchema
  /\ top3Suggestions = [d \in DbIds |-> <<>>]
  /\ synth = IdleSynth
  /\ reply = NoReply

NextCollect ==
  \/ \E u \in Usernames, hasAccess \in BOOLEAN : connectDatabase(u, hasAccess)
  \/ \E u \in Usernames, q \in QueryTexts : enableQueryAlert(u, q)
  \/ CollectStart
  \/ \E rows \in StatOutputs : CollectQuery(rows)
  \/ CollectFind
  \/ CollectWrite
  \/ CollectInvalidate

SpecCollect == InitCollect /\ [][NextCollect]_vars

\* The jobs together with Redis and the handlers that read, store and
\* delete contexts, with the history of the polls kept.
InitCache ==
  /\ userDB = [d \in DbIds |-> [present |-> FALSE, monitoringEnabled |-> FALSE]]
  /\ queryLog = <<>>
  /\ topSlowQuery = <<>>
  /\ outbox = <<>>
  /\ isOpen = TRUE
  /\ cache = [k \in CacheKeys |-> <<>>]
  /\ collect = IdleCollect
  /\ alert = IdleAlert
  /\ consumer = IdleConsumer
  /\ optedIn = {}
  /\ recording = {"polls"}
  /\ lastRows = [d \in DbIds |-> <<>>]
  /\ pollLog = [e \in Jobs |-> IdlePoll]
  /\ lastSet = [u \in Usernames |-> <<>>]
  /\ tableStructure = <<>>
  /\ schema = IdleSchema
  /\ top3Suggestions = [d \in DbIds |-> <<>>]
  /\ synth = IdleSynth
  /\ reply = NoReply

\* Only the user of the one-statement workload connects a database.
CacheUsers == {"u2"}

NextCache ==
  \/ \E u \in CacheUsers, hasAccess \in BOOLEAN : connectDatabase(u, hasAccess)
  \/ \E u \in Usernames, q \in QueryTexts : enableQueryAlert(u, q)
  \/ CollectFire
  \/ \E rows \in StatOutputs : CollectQuery(rows)
  \/ CollectFind
  \/ CollectWrite
  \/ CollectInvalidate
  \/ AlertFire
  \/ \E rows \in StatOutputs : AlertQuery(rows)
  \/ AlertRow
  \/ AlertInvalidate
  \/ AlertRecord
  \/ AlertSend
  \/ \E u \in Usernames : ConsumerGet(u)
  \/ ConsumerHit
  \/ ConsumerBuild
  \/ ConsumerSet
  \/ \E u \in Usernames : InvalidateEndpoint(u)
  \/ Tick
  \/ RedisFlip

SpecCache == InitCache /\ [][NextCache]_vars

\* The two jobs of Spec with the failures of the store, of the monitored
\* database and of the mail transport.
NextFaults ==
  \/ \E u \in Usernames, hasAccess \in BOOLEAN : connectDatabase(u, hasAccess)
  \/ \E u \in Usernames, q \in QueryTexts : enableQueryAlert(u, q)
  \/ CollectFire
  \/ \E rows \in StatOutputs : CollectQuery(rows)
  \/ CollectFind
  \/ CollectWrite
  \/ CollectInvalidate
  \/ AlertFire
  \/ \E rows \in StatOutputs : AlertQuery(rows)
  \/ AlertRow
  \/ AlertInvalidate
  \/ AlertRecord
  \/ AlertSend
  \/ CollectWriteFail
  \/ AlertConnectFail
  \/ AlertSendFail

SpecFaults == Init /\ [][NextFaults]_vars

\* The collector and the context consumer of one user with a reachable
\* Redis, with the history of the polls kept.
NextRace ==
  \/ \E u \in CacheUsers, hasAccess \in BOOLEAN : connectDatabase(u, hasAccess)
  \/ CollectStart
  \/ \E rows \in StatOutputs : CollectQuery(rows)
  \/ CollectFind
  \/ CollectWrite
  \/ CollectInvalidate
  \/ \E u \in CacheUsers : ConsumerGet(u)
  \/ ConsumerHit
  \/ ConsumerBuild
  \/ ConsumerSet

SpecRace == InitCache /\ [][NextRace]_vars

\* The opt-in handler and the collector, with the responses of the handler
\* kept.
InitOptIn ==
  /\ userDB = [d \in DbIds |-> [present |-> FALSE, monitoringEnabled |-> FALSE]]
  /\ queryLog = <<>>
  /\ topSlowQuery = <<>>
  /\ outbox = <<>>
  /\ isOpen = TRUE
  /\ cache = [k \in CacheKeys |-> <<>>]
  /\ collect = IdleCollect
  /\ alert = IdleAlert
  /\ consumer = IdleConsumer
  /\ optedIn = {}
  /\ recording = {"replies"}
  /\ lastRows = [d \in DbIds |-> <<>>]
  /\ pollLog = [e \in Jobs |-> IdlePoll]
  /\ lastSet = [u \in Usernames |-> <<>>]
  /\ tableStructure = <<>>
  /\ schema = IdleSchema
  /\ top3Suggestions = [d \in DbIds |-> <<>>]
  /\ synth = IdleSynth
  /\ reply = NoReply

NextOptIn ==
  \/ \E u \in Usernames, hasAccess \in BOOLEAN : connectDatabase(u, hasAccess)
  \/ \E u \in Usernames, q \in QueryTexts : enableQueryAlert(u, q)
  \/ CollectStart
  \/ \E rows \in StatOutputs : CollectQuery(rows)
  \/ CollectFind
  \/ CollectWrite
  \/ CollectInvalidate

SpecOptIn == InitOptIn /\ [][NextOptIn]_vars

\* The two jobs of Spec with the failures of the store in the rows of an
\* alert poll.
NextRowFaults ==
  \/ \E u \in Usernames, hasAccess \in BOOLEAN : connectDatabase(u, hasAccess)
  \/ \E u \in Usernames, q \in QueryTexts : enableQueryAlert(u, q)
  \/ CollectFire
  \/ \E rows \in StatOutputs : CollectQuery(rows)
  \/ CollectFind
  \/ CollectWrite
  \/ CollectInvalidate
  \/ AlertFire
  \/ \E rows \in StatOutputs : AlertQuery(rows)
  \/ AlertRow
  \/ AlertInvalidate
  \/ AlertRecord
  \/ AlertSend
  \/ AlertRowFail

SpecRowFaults == Init /\ [][NextRowFaults]_vars

\* The schema collector with a reachable Redis and the handler that reads and
\* stores contexts, with the history of the polls kept.
InitSchema ==
  /\ userDB = [d \in DbIds |-> [present |-> FALSE, monitoringEnabled |-> FALSE]]
  /\ queryLog = <<>>
  /\ topSlowQuery = <<>>
  /\ outbox = <<>>
  /\ isOpen = TRUE
  /\ cache = [k \in CacheKeys |-> <<>>]
  /\ collect = IdleCollect
  /\ alert = IdleAlert
  /\ consumer = IdleConsumer
  /\ optedIn = {}
  /\ recording = {"polls"}
  /\ lastRows = [d \in DbIds |-> <<>>]
  /\ pollLog = [e \in Jobs |-> IdlePoll]
  /\ lastSet = [u \in Usernames |-> <<>>]
  /\ tableStructure = <<>>
  /\ schema = IdleSchema
  /\ top3Suggestions = [d \in DbIds |-> <<>>]
  /\ synth = IdleSynth
  /\ reply = NoReply

NextSchema ==
  \/ \E u \in CacheUsers, hasAccess \in BOOLEAN : connectDatabase(u, hasAccess)
  \/ SchemaStart
  \/ \E ok \in BOOLEAN, tables \in TableLists : SchemaConnect(ok, tables)
  \/ \E metaOk \in BOOLEAN, meta \in TableMetas, countResult \in CountResults :
        SchemaStructure(metaOk, meta, countResult)
  \/ \E ok \in BOOLEAN : SchemaUpsert(ok)
  \/ \E u \in CacheUsers : ConsumerGet(u)
  \/ ConsumerHit
  \/ ConsumerBuild
  \/ ConsumerSet

SpecSchema == InitSchema /\ [][NextSchema]_vars

\* The synthesis job with the handler and the jobs that fill the tables it
\* reads: the scheduler fires a job while the other jobs are not running,
\* the statistics hold one row, and the schema collector finds one table,
\* always with the same metadata.
InitSynth == Init

SynthStatOutputs == { s \in StatOutputs : Len(s) = 1 /\ s[1].calls = 1 }

SynthTableLists == { <<"t1">> }

SynthTableMetas ==
  { [ columns |-> <<[column_name |-> "id", data_type |-> "integer"]>>,
      primaryKeys |-> <<"id">>, foreignKeys |-> <<>>,
      indexes |-> <<[indexname |-> "t_pkey"]>> ] }

SynthCountResults == { [ok |-> TRUE, count |-> 7] }

NextSynth ==
  \/ \E u \in Usernames : connectDatabase(u, TRUE)
  \/ schema.pc = "idle" /\ synth.pc = "idle" /\ CollectStart
  \/ \E rows \in SynthStatOutputs : CollectQuery(rows)
  \/ CollectFind
  \/ CollectWrite
  \/ CollectInvalidate
  \/ collect.pc = "idle" /\ synth.pc = "idle" /\ SchemaStart
  \/ \E tables \in SynthTableLists : SchemaConnect(TRUE, tables)
  \/ \E meta \in SynthTableMetas, countResult \in SynthCountResults :
        SchemaStructure(TRUE, meta, countResult)
  \/ SchemaUpsert(TRUE)
  \/ collect.pc = "idle" /\ schema.pc = "idle" /\ SynthStart
  \/ \E ok \in BOOLEAN : SynthGather(ok)
  \/ SynthAsk
  \/ \E ok \in BOOLEAN, response \in SynthResponses : SynthRespond(ok, response)
  \/ \E ok \in BOOLEAN : SynthUpsert(ok)

SpecSynth == InitSynth /\ [][NextSynth]_vars

\* The three collectors with every way their work on a database ends: the
\* scheduler fires a job while the other jobs are not running, the
\* statistics hold one row, and the schema collector finds one table.
ConnStatOutputs == { s \in StatOutputs : Len(s) = 1 }

NextConn ==
  \/ \E u \in Usernames : connectDatabase(u, TRUE)
  \/ \E u \in Usernames, q \in QueryTexts : enableQueryAlert(u, q)
  \/ alert.pc = "idle" /\ schema.pc = "idle" /\ CollectStart
  \/ \E rows \in ConnStatOutputs : CollectQuery(rows)
  \/ CollectFind
  \/ CollectWrite
  \/ CollectInvalidate
  \/ CollectConnectFail
  \/ CollectWriteFail
  \/ collect.pc = "idle" /\ schema.pc = "idle" /\ AlertStart
  \/ \E rows \in ConnStatOutputs : AlertQuery(rows)
  \/ AlertRow
  \/ AlertInvalidate
  \/ AlertRecord
  \/ AlertSend
  \/ AlertConnectFail
  \/ AlertRowFail
  \/ AlertSendFail
  \/ collect.pc = "idle" /\ alert.pc = "idle" /\ SchemaStart
  \/ \E ok \in BOOLEAN, tables \in SynthTableLists : SchemaConnect(ok, tables)
  \/ \E metaOk \in BOOLEAN, meta \in SynthTableMetas,
        countResult \in SynthCountResults :
        SchemaStructure(metaOk, meta, countResult)
  \/ \E ok \in BOOLEAN : SchemaUpsert(ok)

SpecConn == Init /\ [][NextConn]_vars

\* A target that never answers: the Client is built from host, port,
\* database, user and password alone, so no timeout bounds client.connect()
\* (connected = FALSE) or the statistics query (connected = TRUE), and the
\* await of the run never resumes.
CollectHang(connected) ==
  /\ collect.pc = "connect"
  /\ collect' = [collect EXCEPT !.pc = "hung",
                   !.conn = IF connected THEN @ \cup {collect.dbs[1]} ELSE @]
  /\ UNCHANGED <<reply, tableStructure, schema, top3Suggestions, synth,
                 userDB, queryLog, topSlowQuery, outbox, isOpen, cache,
                 alert, consumer, optedIn, lastSet, lastRows, recording, pollLog>>

\* The same for the schema collector: client.connect() or getTables hangs.
SchemaHang(connected) ==
  /\ schema.pc = "connect"
  /\ schema' = [schema EXCEPT !.pc = "hung",
                  !.conn = IF connected THEN @ \cup {schema.dbs[1]} ELSE @]
  /\ UNCHANGED <<reply, tableStructure, top3Suggestions, synth,
                 userDB, queryLog, topSlowQuery, outbox, isOpen, cache, collect,
                 alert, consumer, optedIn, lastSet, lastRows, recording, pollLog>>

\* The steps of a run of the collector, and of the schema collector: the
\* event loop resumes a run whenever the promise it awaits has settled.
CollectStep ==
  \/ \E rows \in ConnStatOutputs : CollectQuery(rows)
  \/ CollectFind
  \/ CollectWrite
  \/ CollectInvalidate
  \/ CollectConnectFail

SchemaRunStep ==
  \/ \E ok \in BOOLEAN, tables \in SynthTableLists : SchemaConnect(ok, tables)
  \/ \E meta \in SynthTableMetas, countResult \in SynthCountResults :
        SchemaStructure(TRUE, meta, countResult)
  \/ SchemaUpsert(TRUE)

NextHang ==
  \/ \E u \in Usernames, hasAccess \in BOOLEAN : connectDatabase(u, hasAccess)
  \/ CollectStart
  \/ CollectStep
  \/ \E connected \in BOOLEAN : CollectHang(connected)
  \/ SchemaStart
  \/ SchemaRunStep
  \/ \E connected \in BOOLEAN : SchemaHang(connected)

SpecHang ==
  Init /\ [][NextHang]_vars /\ WF_vars(CollectStep) /\ WF_vars(SchemaRunStep)

\* The read accessor of the suggestions with the synthesis job and the
\* schema collector that gives it data; a job starts while the other is not
\* running.
NextInsights ==
  \/ \E u \in Usernames : connectDatabase(u, TRUE)
  \/ \E u \in Usernames : analyzeQueries(u)
  \/ synth.pc = "idle" /\ SchemaStart
  \/ \E tables \in SynthTableLists : SchemaConnect(TRUE, tables)
  \/ \E meta \in SynthTableMetas, countResult \in SynthCountResults :
        SchemaStructure(TRUE, meta, countResult)
  \/ SchemaUpsert(TRUE)
  \/ schema.pc = "idle" /\ SynthStart
  \/ \E ok \in BOOLEAN : SynthGather(ok)
  \/ SynthAsk
  \/ \E ok \in BOOLEAN, response \in SynthResponses : SynthRespond(ok, response)
  \/ \E ok \in BOOLEAN : SynthUpsert(ok)

SpecInsights == Init /\ [][NextInsights]_vars

\* The four scheduled jobs and the opt-in request over one store: the
\* scheduler fires a job while the other jobs are not running, and the
\* request arrives at any moment. The statistics hold one slow row of q1, a
\* schema holds one table, every table has the same metadata, and the
\* language model answers with an array of three objects.
StoreStatOutputs ==
  { s \in StatOutputs : Len(s) = 1 /\ s[1].calls = 2 /\ s[1].query = "q1" }

StoreTableLists == { <<"t1">>, <<"t2">> }

StoreResponses == { <<"[", "o1", ",", "o2", ",", "o3", "]">> }

\* No run of a job other than job is in progress.
OnlyRunning(job) ==
  /\ job = "collectLogs" \/ collect.pc = "idle"
  /\ job = "collectAlertQueries" \/ alert.pc = "idle"
  /\ job = "collectTableData" \/ schema.pc = "idle"
  /\ job = "analyzeAndUpdateSuggestions" \/ synth.pc = "idle"

NextStore ==
  \/ \E u \in Usernames : connectDatabase(u, TRUE)
  \/ \E u \in Usernames, q \in QueryTexts : enableQueryAlert(u, q)
  \/ OnlyRunning("collectLogs") /\ CollectStart
  \/ \E rows \in StoreStatOutputs : CollectQuery(rows)
  \/ CollectFind
  \/ CollectWrite
  \/ CollectInvalidate
  \/ OnlyRunning("collectAlertQueries") /\ AlertStart
  \/ \E rows \in StoreStatOutputs : AlertQuery(rows)
  \/ AlertRow
  \/ AlertInvalidate
  \/ AlertRecord
  \/ AlertSend
  \/ OnlyRunning("collectTableData") /\ SchemaStart
  \/ \E tables \in StoreTableLists : SchemaConnect(TRUE, tables)
  \/ \E meta \in SynthTableMetas, countResult \in SynthCountResults :
        SchemaStructure(TRUE, meta, countResult)
  \/ SchemaUpsert(TRUE)
  \/ OnlyRunning("analyzeAndUpdateSuggestions") /\ SynthStart
  \/ SynthGather(TRUE)
  \/ SynthAsk
  \/ \E response \in StoreResponses : SynthRespond(TRUE, response)
  \/ SynthUpsert(TRUE)

SpecStore == Init /\ [][NextStore]_vars

\* ================================================================== claims
\* The database the alert engine is polling, the events it has appended for
\* it in this poll, and the rows of its result set that belong to a record
\* that was alert-enabled when the poll began and lie above the threshold.
PollDb == alert.groups[1].db

InPoll == alert.pc \in {"row", "invalidate", "record", "send"}

NewEvents == SubSeq(topSlowQuery, alert.evBase + 1, Len(topSlowQuery))

EnabledRow(row) == <<PollDb, row.query>> \in alert.enabled

BreachRow(row) ==
  EnabledRow(row) /\ row.mean_exec_time > CRITICAL_QUERY_THRESHOLD_MS

BreachRows == SelectSeq(alert.rows, BreachRow)

\* The batch the dispatcher is owed for BreachRows.
BreachBatch ==
  [j \in 1..Len(BreachRows) |->
     [ query |-> BreachRows[j].query, calls |-> BreachRows[j].calls,
       totalTimeMs |-> BreachRows[j].total_exec_time,
       meanTimeMs |-> BreachRows[j].mean_exec_time,
       rowsReturned |-> BreachRows[j].rows, collectedAt |-> DateValue ]]

\* The step that ends the alert engine's work on the current database.
SendStep == alert.pc = "send" /\ alert' # alert

\* The step in which collectLogs writes the record of its current row.
CollectWriteStep == collect.pc = "write" /\ collect' # collect

\* C1: once an operator has opted query q of target T into alerting, every
\* later alert poll of T whose result set has a row with q's text and a mean
\* time above 500 ms appends an event for q, however many collection polls
\* ran in between.
CE_C1 ==
  alert.pc = "send" =>
    \A k \in DOMAIN alert.rows :
      ( /\ <<PollDb, alert.rows[k].query>> \in alert.opted
        /\ alert.rows[k].mean_exec_time > CRITICAL_QUERY_THRESHOLD_MS )
      => \E j \in DOMAIN NewEvents :
            /\ NewEvents[j].userDbId = PollDb
            /\ NewEvents[j].query = alert.rows[k].query

\* C2: a collection poll that finds the record of (target, hash) leaves the
\* record's alertsEnabled as it was.
CE_C2 ==
  [][ (CollectWriteStep /\ collect.existing # 0) =>
        queryLog'[collect.existing].alertsEnabled
          = queryLog[collect.existing].alertsEnabled ]_vars

\* C3: when a collection poll of target T ends whose result set equals the
\* result set of T's previous collection poll, every text q of the result
\* set has exactly one record for (T, hash(q)), and the record carries the
\* metrics of q's row.
CE_C3 ==
  [][ ( /\ collect.pc \in {"write", "invalidate"}
        /\ collect'.dbs # collect.dbs
        /\ lastRows[collect.dbs[1]] = <<collect.rows>> ) =>
      \A k \in DOMAIN collect.rows :
        LET row == collect.rows[k]
            ids == { n \in DOMAIN queryLog' :
                       /\ queryLog'[n].userDbId = collect.dbs[1]
                       /\ queryLog'[n].queryHash = <<"sha256", row.query>> }
        IN /\ Cardinality(ids) = 1
           /\ \A n \in ids :
                 /\ queryLog'[n].calls = row.calls
                 /\ queryLog'[n].totalTimeMs = row.total_exec_time
                 /\ queryLog'[n].meanTimeMs = row.mean_exec_time
                 /\ queryLog'[n].rowsReturned = row.rows ]_vars

\* C4: every event an alert poll appends belongs to a record whose
\* alertsEnabled was true when the poll began: none is created for a record
\* with alertsEnabled = false, whatever its mean time.
Thm_C4 ==
  InPoll =>
    \A j \in DOMAIN NewEvents :
      <<NewEvents[j].userDbId, NewEvents[j].query>> \in alert.enabled

\* A poll has gone through a result set with a row above the threshold whose
\* record exists and was not alert-enabled, and appended nothing for it.
Wit_C4 ==
  /\ alert.pc = "send"
  /\ \E k \in DOMAIN alert.rows :
       /\ alert.rows[k].mean_exec_time > CRITICAL_QUERY_THRESHOLD_MS
       /\ ~EnabledRow(alert.rows[k])
       /\ \E n \in DOMAIN queryLog :
            /\ queryLog[n].userDbId = PollDb
            /\ queryLog[n].query = alert.rows[k].query
            /\ ~queryLog[n].alertsEnabled
       /\ \A j \in DOMAIN NewEvents : NewEvents[j].query # alert.rows[k].query

Thm_C6 ==
  [][ (SendStep /\ Len(BreachRows) = 0) =>
        /\ Len(NewEvents) = 0
        /\ Len(outbox) = alert.outBase
        /\ outbox' = outbox
        /\ topSlowQuery' = topSlowQuery ]_vars

\* A poll has gone through a result set whose only alert-enabled rows lie
\* exactly at the threshold.
Wit_C6 ==
  /\ alert.pc = "send"
  /\ Len(BreachRows) = 0
  /\ \E k \in DOMAIN alert.rows :
       /\ EnabledRow(alert.rows[k])
       /\ alert.rows[k].mean_exec_time = CRITICAL_QUERY_THRESHOLD_MS

\* C8: the events one alert poll appends for one target carry the ranks
\* 1, 2, ..., k in the order of the breaching rows of the result set.
Thm_C8 ==
  InPoll =>
    /\ Len(NewEvents) <= Len(BreachRows)
    /\ \A j \in DOMAIN NewEvents :
          /\ NewEvents[j].rank = j
          /\ NewEvents[j].query = BreachRows[j].query
    /\ (alert.pc = "send" => Len(NewEvents) = Len(BreachRows))

\* A poll has appended two events for one target.
Wit_C8 ==
  /\ alert.pc = "send"
  /\ Len(NewEvents) = 2
  /\ NewEvents[2].rank = 2

\* The row the alert engine is looking at, the step that handles it, and
\* the record of the polled database with the row's text.
CurRow == alert.rows[alert.i]

AlertRowStep == alert.pc = "row" /\ alert' # alert

CurRecordIds ==
  { n \in DOMAIN queryLog :
      queryLog[n].userDbId = PollDb /\ queryLog[n].query = CurRow.query }

PollKey == getCacheKey(UsernameOfDb(PollDb))

AlertLog == pollLog["collectAlertQueries"]

\* C7 as stated: in an alert poll every row whose text matches an
\* alert-enabled record sets the record's calls, total time, mean time and
\* rows returned to the row's values and is followed by the invalidation of
\* the target's cache entry, whether or not the row is critical.
CE_C7 ==
  [][ (AlertRowStep /\ EnabledRow(CurRow)) =>
        /\ \A n \in CurRecordIds :
              /\ queryLog'[n].calls = CurRow.calls
              /\ queryLog'[n].totalTimeMs = CurRow.total_exec_time
              /\ queryLog'[n].meanTimeMs = CurRow.mean_exec_time
              /\ queryLog'[n].rowsReturned = CurRow.rows
        /\ AlertLog'.pending = {PollDb} ]_vars

\* C7 amended: a matched row whose mean time exceeds the threshold sets the
\* record's four metrics to the row's values, and the engine's next
\* operation deletes the target's cache entry (Redis being open); a matched
\* row at or below the threshold leaves the store and the cache as they are
\* and no invalidation is owed.
Thm_C7 ==
  [][ /\ (AlertRowStep /\ EnabledRow(CurRow)) =>
           IF CurRow.mean_exec_time > CRITICAL_QUERY_THRESHOLD_MS
             THEN /\ CurRecordIds # {}
                  /\ \A n \in CurRecordIds :
                        /\ queryLog'[n].calls = CurRow.calls
                        /\ queryLog'[n].totalTimeMs = CurRow.total_exec_time
                        /\ queryLog'[n].meanTimeMs = CurRow.mean_exec_time
                        /\ queryLog'[n].rowsReturned = CurRow.rows
                  /\ AlertLog'.pending = {PollDb}
             ELSE /\ queryLog' = queryLog
                  /\ cache' = cache
                  /\ AlertLog'.pending = {}
      /\ (AlertLog.pending # {} /\ AlertLog'.pending = {} /\ isOpen) =>
           /\ cache'[PollKey] = <<>>
           /\ queryLog' = queryLog
           /\ topSlowQuery' = topSlowQuery ]_vars

\* A poll has gone through a matched row at the threshold: the record keeps
\* metrics that differ from the row's, and the cache entry is still there.
Wit_C7 ==
  /\ alert.pc = "send"
  /\ cache[PollKey] # <<>>
  /\ \E k \in DOMAIN alert.rows :
       /\ EnabledRow(alert.rows[k])
       /\ alert.rows[k].mean_exec_time <= CRITICAL_QUERY_THRESHOLD_MS
       /\ \E n \in DOMAIN queryLog :
            /\ queryLog[n].userDbId = PollDb
            /\ queryLog[n].query = alert.rows[k].query
            /\ queryLog[n].calls # alert.rows[k].calls

\* C9: with Redis open, a get that follows a set of context c for the same
\* user, within the time-to-live and without an invalidation in between,
\* returns c unchanged; and after an invalidation the key holds nothing
\* until the next set.
CE_C9 ==
  /\ (consumer.pc = "hit" /\ consumer.open) => consumer.context = consumer.expect
  /\ \A u \in Usernames : lastSet[u] = <<>> => cache[getCacheKey(u)] = <<>>

\* C10: a job that has written a QueryLog row of target T deletes T's cache
\* entry (Redis being open) before it writes to the store again; so when a
\* poll ends, a get for each target it wrote is a miss, unless the entry was
\* stored again after the write or Redis was closed at the deletion.
Thm_C10 ==
  [][ \A job \in {"collectLogs", "collectAlertQueries"} :
        LET moved == IF job = "collectLogs" THEN collect' # collect
                     ELSE alert' # alert
            ended == IF job = "collectLogs"
                       THEN collect.pc # "idle" /\ collect'.pc = "idle"
                       ELSE alert.pc # "idle" /\ alert'.pc = "idle"
        IN /\ (moved /\ (queryLog' # queryLog \/ topSlowQuery' # topSlowQuery))
                => pollLog[job].pending = {}
           /\ (pollLog[job].pending # {} /\ pollLog'[job].pending = {} /\ isOpen)
                => \A d \in pollLog[job].pending :
                      cache'[getCacheKey(UsernameOfDb(d))] = <<>>
           /\ ended =>
                \A d \in pollLog'[job].wrote \ pollLog'[job].excused :
                   ~isOpen' \/ cache'[getCacheKey(UsernameOfDb(d))] = <<>> ]_vars

\* A collection poll that wrote a record has ended, and the entry a request
\* was served from before is gone.
Wit_C10 ==
  /\ collect.pc = "idle"
  /\ isOpen
  /\ \E d \in pollLog["collectLogs"].wrote \ pollLog["collectLogs"].excused :
       /\ cache[getCacheKey(UsernameOfDb(d))] = <<>>
       /\ consumer.pc = "hit"
       /\ consumer.username = UsernameOfDb(d)

\* C12: while Redis is closed a get is a miss, a set and the invalidations
\* of the two jobs leave the keys as they are, each of them returns to its
\* caller (the handler and the jobs go on), and the store writes of the
\* jobs stay in place.
Thm_C12 ==
  [][ ~isOpen =>
        /\ (consumer.pc = "idle" /\ consumer' # consumer) =>
              /\ consumer'.pc = "miss"
              /\ consumer'.context = <<>>
              /\ cache' = cache
        /\ (consumer.pc = "set" /\ consumer' # consumer) =>
              /\ cache' = cache
              /\ consumer'.pc = "idle"
        /\ (collect.pc = "invalidate" /\ collect' # collect) =>
              /\ cache' = cache
              /\ queryLog' = queryLog
              /\ collect'.pc \in {"find", "connect", "idle"}
        /\ (alert.pc = "invalidate" /\ alert' # alert) =>
              /\ cache' = cache
              /\ queryLog' = queryLog
              /\ alert'.pc = "record" ]_vars

\* Redis is closed, a collection poll has written a record of a database
\* and ended, and the entry of the database's user is still in Redis.
Wit_C12 ==
  /\ ~isOpen
  /\ collect.pc = "idle"
  /\ \E d \in pollLog["collectLogs"].wrote \cap pollLog["collectLogs"].excused :
       /\ cache[getCacheKey(UsernameOfDb(d))] # <<>>
       /\ \E n \in DOMAIN queryLog :
            queryLog[n].userDbId = d /\ queryLog[n].calls > 0

\* ---------------------------------------------------------------- C11, C18
SchemaLog == pollLog["collectTableData"]

SchemaKey == <<schema.dbs[1], schema.tables[schema.i]>>

SchemaStep == schema' # schema

\* C11: when a run of the schema collector ends, a get for each target
\* whose TableStructure it upserted is a miss, unless the entry was stored
\* again after the upsert or Redis is closed.
CE_C11 ==
  [][ (schema.pc # "idle" /\ schema'.pc = "idle") =>
        \A d \in SchemaLog'.wrote \ SchemaLog'.excused :
           ~isOpen' \/ cache'[getCacheKey(UsernameOfDb(d))] = <<>> ]_vars

\* C18: a table whose metadata queries succeed reaches the upsert whatever
\* the row-count query did; an upsert that succeeds leaves exactly one row of
\* the table, with the metadata read and with rowCount null when the
\* row-count query failed and the count otherwise; a table whose metadata
\* query or upsert fails changes no row, and the collector goes on to the
\* next table of the database.
Thm_C18 ==
  [][ /\ (schema.pc = "structure" /\ SchemaStep /\ SchemaKey \notin schema'.failed)
          => /\ schema'.pc = "upsert"
             /\ schema'.tableData[1].columns # <<>>
             /\ schema'.tableData[1].primaryKeys # <<>>
             /\ schema'.tableData[1].indexes # <<>>
      /\ (schema.pc = "upsert" /\ SchemaStep /\ SchemaKey \notin schema'.failed)
          => LET ids == { n \in DOMAIN tableStructure' :
                            /\ tableStructure'[n].userDbId = SchemaKey[1]
                            /\ tableStructure'[n].tableName = SchemaKey[2] }
             IN /\ Cardinality(ids) = 1
                /\ \A n \in ids :
                     /\ tableStructure'[n].columns = schema.tableData[1].columns
                     /\ tableStructure'[n].primaryKeys = schema.tableData[1].primaryKeys
                     /\ tableStructure'[n].foreignKeys = schema.tableData[1].foreignKeys
                     /\ tableStructure'[n].indexes = schema.tableData[1].indexes
                     /\ tableStructure'[n].rowCount =
                          IF schema.count[1].ok THEN <<schema.count[1].count>>
                          ELSE <<>>
                /\ SchemaKey \in schema'.stored
      /\ (schema.pc \in {"structure", "upsert"} /\ SchemaStep
             /\ SchemaKey \in schema'.failed)
          => /\ tableStructure' = tableStructure
             /\ schema'.stored = schema.stored
             /\ schema.i < Len(schema.tables)
                  => /\ schema'.pc = "structure"
                     /\ schema'.i = schema.i + 1
                     /\ schema'.dbs = schema.dbs
                     /\ schema'.tables = schema.tables ]_vars

\* A run has ended in which the first table of a database failed and the
\* second was stored with its metadata and a null rowCount.
Wit_C18 ==
  /\ schema.pc = "idle"
  /\ \E d \in DbIds :
       /\ <<d, "t1">> \in schema.failed
       /\ <<d, "t2">> \in schema.stored
       /\ \E n \in DOMAIN tableStructure :
            /\ tableStructure[n].userDbId = d
            /\ tableStructure[n].tableName = "t2"
            /\ tableStructure[n].rowCount = <<>>
            /\ tableStructure[n].columns # <<>>

\* ------------------------------------------------------------- C13 .. C17
SynthDb == synth.dbs[1]

\* The upsert of the current database's suggestions succeeds.
SynthWriteStep == synth.pc = "upsert" /\ SynthDb \in synth'.written

IsThreeObjects(v) ==
  /\ v.kind = "array"
  /\ Len(v.items) = 3
  /\ \A k \in 1..3 : v.items[k].kind = "object"

\* No part of the text is a JSON array of three elements.
NoArrayOfThree(text) ==
  \A a, b \in DOMAIN text :
     LET v == JSONparseText(SubSeq(text, a, b))
     IN ~(v.ok /\ v.val.kind = "array" /\ Len(v.val.items) = 3)

\* The text is a JSON array of three objects between prose.
ProseAroundThree(text) ==
  \E a, b \in DOMAIN text :
     /\ SubSeq(text, 1, a - 1) \in SynthLeads
     /\ SubSeq(text, b + 1, Len(text)) \in SynthTrails
     /\ JSONparseText(SubSeq(text, a, b)).ok
     /\ IsThreeObjects(JSONparseText(SubSeq(text, a, b)).val)

BodyOf(text) ==
  LET ab == CHOOSE ab \in (DOMAIN text) \X (DOMAIN text) :
              /\ SubSeq(text, 1, ab[1] - 1) \in SynthLeads
              /\ SubSeq(text, ab[2] + 1, Len(text)) \in SynthTrails
              /\ JSONparseText(SubSeq(text, ab[1], ab[2])).ok
              /\ IsThreeObjects(JSONparseText(SubSeq(text, ab[1], ab[2])).val)
  IN JSONparseText(SubSeq(text, ab[1], ab[2])).val

\* C13: every stored set of suggestions is an array of exactly three
\* suggestion objects.
CE_C13 ==
  \A d \in DbIds :
     top3Suggestions[d] # <<>> => IsThreeObjects(top3Suggestions[d][1])

\* C14: when no part of the response is a JSON array of three elements,
\* the set the run stores is the fallback computed from the metrics.
CE_C14 ==
  [][ (SynthWriteStep /\ NoArrayOfThree(synth.response[1]))
        => top3Suggestions'[SynthDb] =
             <<generateFallbackSuggestions(synth.dbMetrics[1])>> ]_vars

\* C15: when the response is a JSON array of three objects with prose
\* before and after it, the set the run stores is that array.
CE_C15 ==
  [][ (SynthWriteStep /\ ProseAroundThree(synth.response[1]))
        => top3Suggestions'[SynthDb] = <<BodyOf(synth.response[1])>> ]_vars

\* The database has no QueryLog row and no TableStructure row.
NoData(d) ==
  /\ \A n \in DOMAIN queryLog : queryLog[n].userDbId # d
  /\ \A n \in DOMAIN tableStructure : tableStructure[n].userDbId # d

Thm_C17 ==
  [][ /\ (synth.pc = "respond" /\ SynthDb \in synth'.threw)
          => /\ top3Suggestions' = top3Suggestions
             /\ Len(synth.dbs) > 1
                  => /\ synth'.pc = "gather"
                     /\ synth'.dbs = Tail(synth.dbs)
      /\ synth'.threw \cap synth'.written = {} ]_vars

\* The call threw for db1, whose earlier set is still stored, and the same
\* run has stored a set for db2.
Wit_C17 ==
  /\ synth.pc = "idle"
  /\ "db1" \in synth.threw
  /\ top3Suggestions["db1"] # <<>>
  /\ "db2" \in synth.written
  /\ top3Suggestions["db2"] # <<>>

\* ---------------------------------------------------------------- C19, C20
\* C19: a row whose QueryLog write fails (the step from "write" that does
\* not reach the invalidation) changes no record; the collector goes on to
\* the next row of the same database, after the last row to the next
\* database, and after the last database it returns.
Thm_C19 ==
  [][ (collect.pc = "write" /\ collect' # collect /\ collect'.pc # "invalidate")
        => /\ queryLog' = queryLog
           /\ collect.i < Len(collect.rows)
                => /\ collect'.pc = "find"
                   /\ collect'.i = collect.i + 1
                   /\ collect'.rows = collect.rows
                   /\ collect'.dbs = collect.dbs
           /\ (collect.i = Len(collect.rows) /\ Len(collect.dbs) > 1)
                => /\ collect'.pc = "connect"
                   /\ collect'.dbs = Tail(collect.dbs)
           /\ (collect.i = Len(collect.rows) /\ Len(collect.dbs) = 1)
                => collect'.pc = "idle" ]_vars

\* The first row of db1's result set has no record (its write failed), the
\* second row has been written, and db2 is still to be polled.
Wit_C19 ==
  /\ collect.pc = "invalidate"
  /\ collect.i = 2
  /\ collect.dbs = <<"db1", "db2">>
  /\ FindFirstByHash(queryLog, "db1", hashQuery(collect.rows[1].query)) = 0
  /\ \A n \in DOMAIN queryLog : queryLog[n].queryHash # hashQuery(collect.rows[1].query)
  /\ FindFirstByHash(queryLog, "db1", hashQuery(collect.rows[2].query)) # 0

\* C20: a database whose connection or query throws writes nothing, and the
\* alert engine goes on to the next database of the poll; the dispatch step,
\* failed or not, leaves the records and the events as they are, with one
\* event in place for every critical query of the database, and goes on to
\* the next database.
Thm_C20 ==
  [][ /\ (alert.pc = "connect" /\ alert.groups[1].db \in alert'.failed)
          => /\ queryLog' = queryLog
             /\ topSlowQuery' = topSlowQuery
             /\ outbox' = outbox
             /\ Len(alert.groups) > 1
                  => /\ alert'.pc = "connect"
                     /\ alert'.groups = Tail(alert.groups)
      /\ (alert.pc = "send" /\ alert' # alert)
          => /\ queryLog' = queryLog
             /\ topSlowQuery' = topSlowQuery
             /\ Len(topSlowQuery') - alert.evBase = Len(alert.criticalQueries)
             /\ \A k \in 1..Len(alert.criticalQueries) :
                   /\ topSlowQuery'[alert.evBase + k].userDbId = alert.groups[1].db
                   /\ topSlowQuery'[alert.evBase + k].query = alert.criticalQueries[k].query
             /\ Len(alert.groups) > 1
                  => /\ alert'.pc = "connect"
                     /\ alert'.groups = Tail(alert.groups) ]_vars

\* An earlier dispatch failed (an event is stored and no message was ever
\* sent); in the running poll the connection of db1 failed and an event of
\* db2 has been recorded.
Wit_C20 ==
  /\ alert.pc = "send"
  /\ "db1" \in alert.failed
  /\ alert.groups[1].db = "db2"
  /\ Len(alert.criticalQueries) > 0
  /\ alert.evBase > 0
  /\ Len(topSlowQuery) > alert.evBase
  /\ outbox = <<>>

\* ------------------------------------------------------------- C24 .. C26
\* C24: when the alert engine has connected to a database and read its
\* statistics, the database has monitoringEnabled = true.
CE_C24 ==
  [][ (alert.pc = "connect" /\ alert'.pc \in {"row", "send"})
        => userDB[alert.groups[1].db].monitoringEnabled ]_vars

\* A POST /alert-query of a user with a UserDB row has been answered.
OptInStep == reply'.n # reply.n

\* C25: the request for text q of database T sets alertsEnabled on the
\* record of (T, hash(q)) and changes nothing else when there is one, and
\* otherwise appends one record of (T, hash(q)) with zero metrics and
\* alertsEnabled = true.
CE_C25 ==
  [][ OptInStep =>
        LET db == reply'.db
            queryHash == hashQuery(reply'.query)
            ids == { n \in DOMAIN queryLog :
                       queryLog[n].userDbId = db /\ queryLog[n].queryHash = queryHash }
        IN IF ids # {}
             THEN /\ Len(queryLog') = Len(queryLog)
                  /\ \A n \in DOMAIN queryLog :
                        queryLog'[n] = IF n \in ids
                                         THEN [queryLog[n] EXCEPT !.alertsEnabled = TRUE]
                                         ELSE queryLog[n]
             ELSE /\ Len(queryLog') = Len(queryLog) + 1
                  /\ SubSeq(queryLog', 1, Len(queryLog)) = queryLog
                  /\ LET new == queryLog'[Len(queryLog')]
                     IN /\ new.userDbId = db
                        /\ new.queryHash = queryHash
                        /\ new.calls = 0
                        /\ new.totalTimeMs = 0
                        /\ new.meanTimeMs = 0
                        /\ new.rowsReturned = 0
                        /\ new.alertsEnabled ]_vars

\* The row of text q in the result set of d's last finished collection.
LastRowOf(d, q) ==
  LET rows == lastRows[d][1]
  IN rows[CHOOSE k \in DOMAIN rows : rows[k].query = q]

ReportedBy(d, q) ==
  /\ lastRows[d] # <<>>
  /\ \E k \in DOMAIN lastRows[d][1] : lastRows[d][1][k].query = q

\* C26: when no collection is running and the last result set of each of
\* the two databases holds text q, each database has a record of hash(q)
\* that carries the metrics of its own row.
CE_C26 ==
  collect.pc = "idle" =>
    \A q \in QueryTexts :
       (\A d \in DbIds : ReportedBy(d, q)) =>
          \A d \in DbIds :
             \E n \in DOMAIN queryLog :
                /\ queryLog[n].userDbId = d
                /\ queryLog[n].queryHash = hashQuery(q)
                /\ queryLog[n].calls = LastRowOf(d, q).calls
                /\ queryLog[n].meanTimeMs = LastRowOf(d, q).mean_exec_time

\* ------------------------------------------------------------------- C27
\* The query logs of the context carry the metrics the store holds for the
\* database: every log of the context agrees with its record, and every
\* record the collector has written is in the context.
FreshContext(context, userDbId) ==
  /\ \A k \in DOMAIN context.queryLogs :
        \E n \in DOMAIN queryLog :
           /\ queryLog[n].userDbId = userDbId
           /\ queryLog[n].query = context.queryLogs[k].query
           /\ queryLog[n].calls = context.queryLogs[k].calls
           /\ queryLog[n].meanTimeMs = context.queryLogs[k].meanTimeMs
  /\ \A n \in DOMAIN queryLog :
        (queryLog[n].userDbId = userDbId /\ queryLog[n].calls > 0)
          => \E k \in DOMAIN context.queryLogs :
                context.queryLogs[k].query = queryLog[n].query

\* C27: a cache hit served while no invalidation of the collector is
\* outstanding returns a context whose query logs carry the metrics of the
\* store.
CE_C27 ==
  [][ ( /\ consumer.pc = "idle"
        /\ consumer'.pc = "hit"
        /\ pollLog["collectLogs"].pending = {} )
        => FreshContext(consumer'.context[1], DbIdOf[consumer'.username]) ]_vars

\* ------------------------------------------------------------------- C28
\* C28: whatever happens to a matched row of an alert poll, the poll stays
\* with the database: it goes on with the row, with the next row, or with
\* the dispatch of the events appended so far.
CE_C28 ==
  [][ (alert.pc \in {"row", "invalidate", "record"} /\ alert' # alert)
        => /\ alert'.pc \in {"row", "invalidate", "record", "send"}
           /\ alert'.groups = alert.groups
           /\ alert'.rows = alert.rows ]_vars

\* C22: within one run of a collector at most one connection to a target
\* is open at any moment, and the connection of a target is closed on every
\* way its work ends (success, connection or query failure, row or table
\* write failure) before the next target is connected to or the run returns.
OpenOf(c, db) ==
  /\ Cardinality(c.conn) <= 1
  /\ c.conn \subseteq {db}
  /\ c.pc \in {"idle", "connect"} => c.conn = {}

Thm_C22 ==
  /\ OpenOf(collect, IF collect.dbs = <<>> THEN "" ELSE collect.dbs[1])
  /\ OpenOf(alert, IF alert.groups = <<>> THEN "" ELSE alert.groups[1].db)
  /\ OpenOf(schema, IF schema.dbs = <<>> THEN "" ELSE schema.dbs[1])

\* The collector works on its second target, connected, after a run in which
\* the first target was connected to.
Wit_C22 ==
  /\ collect.pc = "write"
  /\ collect.conn = {"db2"}
  /\ collect.dbs = <<"db2">>

\* C23: when a target hangs (its connection attempt or its statistics query
\* never returns), the run of the collector eventually gives up on it and
\* completes.
CE_C23 == (collect.pc = "hung") ~> (collect.pc = "idle")

\* C30: the read accessor of the suggestions is a pure read: no
\* SuggestionSet changes and the text-generation collaborator is not called
\* during the request or as a later consequence of it, so every such change
\* and call belongs to a run the scheduler started.
CE_C30 ==
  [][ (top3Suggestions' # top3Suggestions \/ synth'.asked # synth.asked)
        => synth.by # "get-insights" ]_vars

JobStep ==
  collect' # collect \/ alert' # alert \/ schema' # schema \/ synth' # synth

Thm_C29 ==
  [][ JobStep =>
        /\ userDB' = userDB
        /\ Len(topSlowQuery') >= Len(topSlowQuery)
        /\ SubSeq(topSlowQuery', 1, Len(topSlowQuery)) = topSlowQuery
        /\ Len(queryLog') >= Len(queryLog)
        /\ \A id \in DOMAIN queryLog :
              /\ queryLog'[id].userDbId = queryLog[id].userDbId
              /\ queryLog'[id].queryHash = queryLog[id].queryHash
        /\ Len(tableStructure') >= Len(tableStructure)
        /\ \A id \in DOMAIN tableStructure :
              /\ tableStructure'[id].userDbId = tableStructure[id].userDbId
              /\ tableStructure'[id].schemaName = tableStructure[id].schemaName
              /\ tableStructure'[id].tableName = tableStructure[id].tableName ]_vars

\* A schema poll of db1 has ended that found t2 alone, the snapshot of t1
\* from an earlier poll is still stored, and the alert job has appended an
\* event.
Wit_C29 ==
  /\ schema.pc = "idle"
  /\ schema.stored = {<<"db1", "t2">>}
  /\ \E id \in DOMAIN tableStructure :
        tableStructure[id].userDbId = "db1" /\ tableStructure[id].tableName = "t1"
  /\ topSlowQuery # <<>>
  /\ queryLog # <<>>

====
